---------------------------- MODULE Spec2Model ----------------------------
(***************************************************************************)
(* Model of the metric extraction pipeline of Financeflow_ai:              *)
(*   backend/app/agents/orchestrator.py   MetricExtractionPipeline         *)
(*   backend/app/agents/schema_designer.py SchemaDesigner                  *)
(*   backend/app/agents/snowflake_deployer.py SnowflakeDeployer            *)
(*   backend/app/agents/extractor.py      DocumentExtractor                *)
(* The warehouse, the document-AI service and the LLM are external: their  *)
(* answers are nondeterministic choices over the outcomes the code         *)
(* distinguishes.                                                          *)
(***************************************************************************)
EXTENDS Integers, Sequences, FiniteSets, Bags, TLC

VARIABLES
    state,                        \* MetricState, the graph's state dict
    pc,                           \* the node (or the step inside deploy_metrics_node) to run next
    i,                            \* position of the loops over file_paths / markdown_paths
    total_rows_loaded,            \* local of deploy_metrics_node
    final_deployment_result,      \* local of deploy_metrics_node (Optional)
    extracted_metrics_by_document,\* local of deploy_metrics_node
    extraction_data,              \* local of deploy_metrics_node: the loop's current extraction
    schema_result,                \* local of deploy_metrics_node (Optional)
    markdown_paths,               \* local of extract_markdown_node
    use_snowflake,                \* SnowflakeDeployer.use_snowflake
    wh_tables,                    \* warehouse: table name -> column names
    wh_rows,                      \* warehouse: the bag of committed rows of EXTRACTED_METRICS
    calls,                        \* history: the calls this batch made to its collaborators
    ddl_log,                      \* history: the create_schema_if_not_exists calls that returned
    open_connections,             \* warehouse: connections opened and not closed
    input_metrics,                \* history: the SelectedMetricSet the batch was started with
    visited,                      \* history: the nodes the run has executed, in order
    batch,                        \* number of batches started
    use_gemini,                   \* AnalysisAgent.use_gemini
    last_request_time,            \* AnalysisAgent.last_request_time
    now,                          \* time.time(), in seconds
    running,                      \* the request whose coroutine holds the event loop (0: none)
    apc,                          \* request -> where its analyze_query stands
    attempt,                      \* request -> attempt of the retry loop it is in
    in_flight,                    \* the requests inside a generate_content call
    infer_log,                    \* history: the generate_content calls, in order
    sleep_log,                    \* history: the sleeps of the retry loops
    throttle_log,                 \* history: the passes of the throttle
    response,                     \* request -> the dict analyze_query returned (Optional)
    response_text,                \* response.text of a reply of the language model
    parse_result,                 \* what an operation made of response_text (Optional)
    design_metrics,               \* the metrics argument of a design_schema call
    design_result,                \* the DatabaseSchema the call returned (Optional)
    f_state,                      \* PipelineState, the state dict of FinancePipeline
    f_pc,                         \* the node of FinancePipeline to run next
    f_visited,                    \* history: the nodes FinancePipeline has run, in order
    f_deploy_calls                \* history: the calls of deployer.deploy

\* the variables of the pipeline, of the analysis agent, of the reply texts
pipeline == <<state, pc, i, total_rows_loaded, final_deployment_result,
              extracted_metrics_by_document, extraction_data, schema_result,
              markdown_paths, use_snowflake,
              wh_tables, wh_rows, open_connections, calls, ddl_log, input_metrics,
              visited, batch>>

analysis == <<use_gemini, last_request_time, now, running, apc, attempt, in_flight,
              infer_log, sleep_log, throttle_log, response>>

parsing == <<response_text, parse_result>>

designing == <<design_metrics, design_result>>

finance == <<f_state, f_pc, f_visited, f_deploy_calls>>

vars == <<pipeline, analysis, parsing, designing, finance>>

-----------------------------------------------------------------------------
(* Bounds *)

MaxDocs == 2

MaxBatches == 2

\* requests to the analysis agent
MaxRequests == 2

\* seconds the event loop idles before it starts a request
MaxGap == 2

\* tokens of a reply text
MaxTextLen == 6

\* metrics of a design_schema call
MaxMetrics == 2

-----------------------------------------------------------------------------
(* Python values *)

\* Optional[T]: None is the empty sequence, a value v is <<v>>.
None == <<>>

Some(v) == <<v>>

\* Python truthiness of an Optional, a list or a dict
Truthy(x) == DOMAIN x # {}

EmptyDict == [k \in {} |-> "NULL"]

\* dict.get(key): the value, or None (bound as SQL NULL) when the key is absent
NULL == "NULL"

DictGet(d, key) == IF key \in DOMAIN d THEN d[key] ELSE NULL

\* str.upper() and str.lower() on the metric names of the model
Upper(s) == CASE s = "rev" -> "REV"
              [] s = "Rev" -> "REV"
              [] s = "REV" -> "REV"
              [] s = "eps" -> "EPS"
              [] s = "EPS" -> "EPS"
              [] OTHER -> s

Lower(s) == CASE s = "rev" -> "rev"
              [] s = "Rev" -> "rev"
              [] s = "REV" -> "rev"
              [] s = "eps" -> "eps"
              [] s = "EPS" -> "eps"
              [] OTHER -> s

Range(s) == {s[k] : k \in 1..Len(s)}

-----------------------------------------------------------------------------
(* Inputs of a batch *)

\* metric definitions ({name, type}); "string" is the spec's tag, not a key
\* of the designer's type_mapping
MetricRev == [name |-> "rev", type |-> "float"]

MetricRevCap == [name |-> "Rev", type |-> "int"]

MetricEps == [name |-> "eps", type |-> "string"]

\* the metric lists a batch may be given (ordered, unique by name)
MetricSets == { <<>>, <<MetricRev>>, <<MetricRevCap>>, <<MetricRev, MetricEps>> }

\* a path is its directory and its file name split at the dots
PathA == [dir |-> "uploads", file |-> <<"a", "md">>]

PathB == [dir |-> "uploads", file |-> <<"b", "v2", "md">>]

Paths == {PathA, PathB}

\* the lists of at most MaxDocs paths
PathLists == UNION { [1..n -> Paths] : n \in 0..MaxDocs }

\* what the document behind a path holds for every metric
DocValue(path) == IF path = PathA THEN "100.0" ELSE "200.0"

\* (md_path.split('/')[-1]).split('.')[0]
DocName(md_path) == md_path.file[1]

-----------------------------------------------------------------------------
(* DocumentExtractor.extract_metrics_from_markdown *)

\* what one call can come to. response.extraction is returned as the service
\* sent it: a value for every field of the schema built from the metrics
\* ("ok"), a value for the first field only ("partial"), a field the schema
\* does not name ("unasked"), no extraction ("empty"); or the call fails or
\* the client is not available ("error")
ExtractOutcomes == {"ok", "partial", "unasked", "empty", "error"}

\* the answers drawn for a call: the answer with a field of its own is drawn
\* for the schema without fields, where it is the only answer that holds
\* anything; for the other schemas it takes the branches "partial" takes
ExtractOutcomesFor(metrics) ==
    IF metrics = <<>> THEN ExtractOutcomes ELSE ExtractOutcomes \ {"unasked"}

\* the fields of the schema: the metric names as given
\* (create_schema_from_metrics)
SchemaFields(metrics) == {m.name : m \in Range(metrics)}

\* the dict the call returns
ExtractMetricsFromMarkdown(outcome, markdown_path, metrics) ==
    CASE outcome = "ok" ->
           [extraction |-> [n \in SchemaFields(metrics) |-> DocValue(markdown_path)],
            error |-> FALSE]
      [] outcome = "partial" ->
           [extraction |-> [n \in SchemaFields(SubSeq(metrics, 1, IF metrics = <<>> THEN 0 ELSE 1))
                               |-> DocValue(markdown_path)],
            error |-> FALSE]
      [] outcome = "unasked" ->
           [extraction |-> [n \in {"note"} |-> DocValue(markdown_path)], error |-> FALSE]
      [] outcome = "empty" -> [extraction |-> EmptyDict, error |-> FALSE]
      [] OTHER -> [extraction |-> EmptyDict, error |-> TRUE]

\* "error" in extraction_data or not extraction_data.get("extraction")
ExtractionFailed(data) == data.error \/ ~Truthy(data.extraction)

-----------------------------------------------------------------------------
(* SchemaDesigner *)

Col(n, t, c) == [name |-> n, type |-> t, constraints |-> c]

\* the keys of type_mapping
TypeMappingKeys == {"str", "int", "float", "bool"}

\* a mapping that stores a float as an integer
TypeMappingFloatAsInt(metric_type) ==
    CASE metric_type = "str" -> "VARCHAR(500)"
      [] metric_type = "int" -> "NUMBER"
      [] metric_type = "float" -> "NUMBER"
      [] metric_type = "bool" -> "BOOLEAN"
      [] OTHER -> "VARCHAR(500)"

\* type_mapping.get(metric_type, 'VARCHAR(500)')
TypeMapping(metric_type) ==
    CASE metric_type = "str" -> "VARCHAR(500)"
      [] metric_type = "int" -> "NUMBER"
      [] metric_type = "float" -> "NUMBER(18,2)"
      [] metric_type = "bool" -> "BOOLEAN"
      [] OTHER -> "VARCHAR(500)"

\* [col.name for col in columns]
ColumnNames(columns) == [k \in 1..Len(columns) |-> columns[k].name]

\* one statement of ddl_sql: CREATE TABLE IF NOT EXISTS table (columns)
CreateTableDdl(table) ==
    [kind |-> "CREATE TABLE IF NOT EXISTS", table_name |-> table.table_name,
     columns |-> ColumnNames(table.columns), comment |-> FALSE]

MetricColumn(metric) == Col(Upper(metric.name), TypeMapping(metric.type), "")

CreateMetricsSchema(extracted_metrics, metrics) ==
    LET metric_columns ==
            << Col("METRIC_ID", "NUMBER", "PRIMARY KEY IDENTITY(1,1)"),
               Col("DOCUMENT_NAME", "VARCHAR(255)", "NOT NULL"),
               Col("EXTRACTION_DATE", "TIMESTAMP", "DEFAULT CURRENT_TIMESTAMP()") >>
            \o [k \in 1..Len(metrics) |-> MetricColumn(metrics[k])]
        metrics_table == [table_name |-> "EXTRACTED_METRICS",
                          columns |-> metric_columns,
                          indexes |-> <<"DOCUMENT_NAME", "EXTRACTION_DATE">>]
    IN  [tables |-> <<metrics_table>>,
         relationships |-> <<>>,
         clustering_recommendations |-> <<>>,
         ddl_sql |-> <<CreateTableDdl(metrics_table)>>]

DimTime ==
    [table_name |-> "DIM_TIME_PERIOD",
     columns |-> << Col("PERIOD_ID", "NUMBER", "PRIMARY KEY IDENTITY(1,1)"),
                    Col("FISCAL_YEAR", "NUMBER", "NOT NULL"),
                    Col("FISCAL_QUARTER", "NUMBER", ""),
                    Col("PERIOD_NAME", "VARCHAR(50)", "NOT NULL"),
                    Col("PERIOD_TYPE", "VARCHAR(20)", ""),
                    Col("CREATED_AT", "TIMESTAMP", "DEFAULT CURRENT_TIMESTAMP()") >>,
     indexes |-> <<"FISCAL_YEAR", "FISCAL_QUARTER">>]

DimAccount ==
    [table_name |-> "DIM_ACCOUNT",
     columns |-> << Col("ACCOUNT_ID", "NUMBER", "PRIMARY KEY IDENTITY(1,1)"),
                    Col("ACCOUNT_NAME", "VARCHAR(200)", "NOT NULL"),
                    Col("ACCOUNT_TYPE", "VARCHAR(50)", "NOT NULL"),
                    Col("DOCUMENT_TYPE", "VARCHAR(50)", ""),
                    Col("PARENT_ACCOUNT", "VARCHAR(200)", ""),
                    Col("CREATED_AT", "TIMESTAMP", "DEFAULT CURRENT_TIMESTAMP()") >>,
     indexes |-> <<"ACCOUNT_TYPE", "DOCUMENT_TYPE">>]

DimDocument ==
    [table_name |-> "DIM_DOCUMENT",
     columns |-> << Col("DOCUMENT_ID", "NUMBER", "PRIMARY KEY IDENTITY(1,1)"),
                    Col("FILE_NAME", "VARCHAR(255)", "NOT NULL"),
                    Col("DOCUMENT_TYPE", "VARCHAR(50)", ""),
                    Col("UPLOAD_DATE", "TIMESTAMP", "DEFAULT CURRENT_TIMESTAMP()"),
                    Col("PROCESSING_STATUS", "VARCHAR(20)", "") >>,
     indexes |-> <<"DOCUMENT_TYPE", "UPLOAD_DATE">>]

FactFinancial ==
    [table_name |-> "FACT_FINANCIAL_DATA",
     columns |-> << Col("FACT_ID", "NUMBER", "PRIMARY KEY IDENTITY(1,1)"),
                    Col("PERIOD_ID", "NUMBER", "NOT NULL"),
                    Col("ACCOUNT_ID", "NUMBER", "NOT NULL"),
                    Col("DOCUMENT_ID", "NUMBER", ""),
                    Col("AMOUNT", "NUMBER(18,2)", "NOT NULL"),
                    Col("CONFIDENCE_SCORE", "NUMBER(5,4)", ""),
                    Col("DATA_TYPE", "VARCHAR(50)", ""),
                    Col("CURRENCY", "VARCHAR(10)", "DEFAULT 'USD'"),
                    Col("CREATED_AT", "TIMESTAMP", "DEFAULT CURRENT_TIMESTAMP()"),
                    Col("UPDATED_AT", "TIMESTAMP", "DEFAULT CURRENT_TIMESTAMP()") >>,
     indexes |-> <<"PERIOD_ID", "ACCOUNT_ID", "DOCUMENT_ID">>]

\* a star schema without the document dimension
CreateStarSchemaThreeTables ==
    LET tables == <<DimTime, DimAccount, FactFinancial>>
    IN  [tables |-> tables,
         relationships |->
             << [from |-> "FACT_FINANCIAL_DATA.PERIOD_ID", to |-> "DIM_TIME_PERIOD.PERIOD_ID"],
                [from |-> "FACT_FINANCIAL_DATA.ACCOUNT_ID", to |-> "DIM_ACCOUNT.ACCOUNT_ID"] >>,
         clustering_recommendations |->
             << [table |-> "FACT_FINANCIAL_DATA", keys |-> <<"PERIOD_ID", "ACCOUNT_ID">>] >>,
         ddl_sql |-> [k \in 1..Len(tables) |-> CreateTableDdl(tables[k])]]

\* ddl_sql of the star schema, cut at the ';': the four CREATE TABLE, then
\* the piece "-- Clustering ... ALTER TABLE ... CLUSTER BY", which starts
\* with the comment
CreateStarSchema ==
    LET tables == <<DimTime, DimAccount, DimDocument, FactFinancial>>
    IN  [tables |-> tables,
         relationships |->
             << [from |-> "FACT_FINANCIAL_DATA.PERIOD_ID", to |-> "DIM_TIME_PERIOD.PERIOD_ID"],
                [from |-> "FACT_FINANCIAL_DATA.ACCOUNT_ID", to |-> "DIM_ACCOUNT.ACCOUNT_ID"],
                [from |-> "FACT_FINANCIAL_DATA.DOCUMENT_ID", to |-> "DIM_DOCUMENT.DOCUMENT_ID"] >>,
         clustering_recommendations |->
             << [table |-> "FACT_FINANCIAL_DATA", keys |-> <<"PERIOD_ID", "ACCOUNT_ID">>] >>,
         ddl_sql |-> [k \in 1..Len(tables) |-> CreateTableDdl(tables[k])]
                     \o << [kind |-> "ALTER TABLE CLUSTER BY",
                            table_name |-> "FACT_FINANCIAL_DATA",
                            columns |-> <<"PERIOD_ID", "ACCOUNT_ID">>,
                            comment |-> TRUE] >>]

\* design_schema(extracted_metrics=..., metrics=...): extraction_results and
\* analysis are not passed by the metric pipeline
DesignSchema(extracted_metrics, metrics) ==
    IF Truthy(metrics)
    THEN CreateMetricsSchema(extracted_metrics, metrics)
    ELSE CreateStarSchema

\* the type tags a caller may send: MetricDefinition.type is any string
TypeTags == {"str", "string", "int", "float", "bool", "date"}

\* the metrics arguments of a design_schema call (None and [] are both falsy)
MetricLists ==
    UNION { [1..n -> [name : {"rev", "eps"}, type : TypeTags]] : n \in 0..MaxMetrics }

\* no design_schema call is looked at
NoDesign == design_metrics = <<>> /\ design_result = None

\* await designer.design_schema(extracted_metrics=..., metrics=design_metrics)
DesignSchemaCall ==
    /\ design_result = None
    /\ design_result' = <<DesignSchema(<<>>, design_metrics)>>
    /\ UNCHANGED <<design_metrics, pipeline, analysis, parsing, finance>>

-----------------------------------------------------------------------------
(* The warehouse (WarehouseExecute) *)

\* what a connection to the warehouse can come to, besides what the
\* statement itself decides
WarehouseOutcomes == {"ok", "unavailable"}

NoDuplicates(s) == \A a, b \in 1..Len(s) : s[a] = s[b] => a = b

\* cursor.execute(ddl) of one CREATE TABLE IF NOT EXISTS: nothing happens
\* when the table exists, the statement is refused when it names a column
\* twice
WarehouseExecuteDdl(tables, ddl) ==
    IF ddl.kind = "CREATE TABLE IF NOT EXISTS"
    THEN IF ddl.table_name \in DOMAIN tables
         THEN [ok |-> TRUE, tables |-> tables]
         ELSE IF ~NoDuplicates(ddl.columns)
              THEN [ok |-> FALSE, tables |-> tables]
              ELSE [ok |-> TRUE,
                    tables |-> [t \in DOMAIN tables \cup {ddl.table_name} |->
                                   IF t = ddl.table_name THEN ddl.columns ELSE tables[t]]]
    ELSE [ok |-> ddl.table_name \in DOMAIN tables, tables |-> tables]

\* cursor.execute(insert_sql, values): the table and every named column
\* must exist, no column is named twice, DOCUMENT_NAME is NOT NULL
WarehouseAcceptsInsert(tables, columns, values) ==
    /\ "EXTRACTED_METRICS" \in DOMAIN tables
    /\ Range(columns) \subseteq Range(tables["EXTRACTED_METRICS"])
    /\ NoDuplicates(columns)
    /\ Len(values) = Len(columns)
    /\ values[1] # NULL

-----------------------------------------------------------------------------
(* SnowflakeDeployer *)

\* the loop over ddl_statements: pieces starting with "--" are skipped, the
\* first refused statement raises, what was executed before it stays
RECURSIVE ExecuteDdlStatements(_, _)
ExecuteDdlStatements(tables, ddl_statements) ==
    IF ddl_statements = <<>>
    THEN [ok |-> TRUE, tables |-> tables]
    ELSE LET ddl == Head(ddl_statements)
         IN  IF ddl.comment
             THEN ExecuteDdlStatements(tables, Tail(ddl_statements))
             ELSE LET r == WarehouseExecuteDdl(tables, ddl)
                  IN  IF r.ok
                      THEN ExecuteDdlStatements(r.tables, Tail(ddl_statements))
                      ELSE r

DeploymentResult(tables_created, rows_loaded, status) ==
    [tables_created |-> tables_created, rows_loaded |-> rows_loaded,
     database |-> "FINANCIAL_DATA", schema |-> "PUBLIC", status |-> status]

\* tables_created = len(schema.tables)
TablesCreated(schema) == Len(schema.tables)

\* the connections a call that got one leaves open: conn.close() is the last
\* statement of the try block, the except clause closes nothing
LeftOpenAfter(failed) == IF failed THEN 1 ELSE 0

\* create_schema_if_not_exists(schema) against the warehouse `tables`:
\* whether it raises, the warehouse afterwards, the DeploymentResult returned
CreateSchemaIfNotExists(use_sf, outcome, tables, schema) ==
    IF ~use_sf \/ outcome # "ok"
    THEN [raises |-> TRUE, tables |-> tables, result |-> None, left_open |-> 0]
    ELSE LET r == ExecuteDdlStatements(tables, schema.ddl_sql)
         IN  IF ~r.ok
             THEN [raises |-> TRUE, tables |-> r.tables, result |-> None,
                   left_open |-> LeftOpenAfter(TRUE)]
             ELSE [raises |-> FALSE, tables |-> r.tables,
                   left_open |-> LeftOpenAfter(FALSE),
                   result |-> Some(DeploymentResult(
                                  TablesCreated(schema), 0,
                                  "schema_created"))]

\* column_names without .upper(): the metric names as given
InsertColumnNamesAsGiven(metrics) ==
    <<"DOCUMENT_NAME">> \o [k \in 1..Len(metrics) |-> metrics[k].name]

\* column_names = ["DOCUMENT_NAME"] + [m.get('name', '').upper() for m in metrics]
InsertColumnNames(metrics) ==
    <<"DOCUMENT_NAME">> \o [k \in 1..Len(metrics) |-> Upper(metrics[k].name)]

\* value = extracted_metrics.get(metric_name_lower)
MetricValue(extracted_metrics, metric) == DictGet(extracted_metrics, Lower(metric.name))

\* values = [document_name or "unknown"] + one value per metric
InsertValues(extracted_metrics, metrics, document_name) ==
    << IF document_name = "" THEN "unknown" ELSE document_name >>
    \o [k \in 1..Len(metrics) |-> MetricValue(extracted_metrics, metrics[k])]

\* a lookup with extracted_metrics[name]: a metric without a value is a KeyError
LookupRaisesKeyError(extracted_metrics, metrics) ==
    \E k \in 1..Len(metrics) : Lower(metrics[k].name) \notin DOMAIN extracted_metrics

\* extracted_metrics.get(name) raises for no key
LookupRaises(extracted_metrics, metrics) == FALSE

\* insert_metrics_row without its try/except: a failure reaches the caller
InsertFailureRaisesUncaught(failed) == failed

\* the except clause of insert_metrics_row: every failure inside the try
\* is caught and 0 is returned
InsertFailureRaises(failed) == FALSE

\* insert_metrics_row(extracted_metrics, metrics, document_name) against the
\* warehouse: whether it raises, the rows committed afterwards, the count
\* returned, and the INSERT it sent to the warehouse (empty when it sent none)
InsertMetricsRow(use_sf, outcome, tables, rows, extracted_metrics, metrics, document_name) ==
    LET column_names == InsertColumnNames(metrics)
        values == InsertValues(extracted_metrics, metrics, document_name)
    IN  IF ~use_sf
        THEN [raises |-> TRUE, rows |-> rows, rows_loaded |-> 0,
              column_names |-> <<>>, values |-> <<>>, left_open |-> 0]
        ELSE IF outcome # "ok"
             \* connect() failed: no statement was built
             THEN [raises |-> InsertFailureRaises(TRUE), rows |-> rows, rows_loaded |-> 0,
                   column_names |-> <<>>, values |-> <<>>, left_open |-> 0]
             ELSE IF LookupRaises(extracted_metrics, metrics)
             \* raised while the values were prepared: nothing was executed
             THEN [raises |-> InsertFailureRaises(TRUE), rows |-> rows, rows_loaded |-> 0,
                   column_names |-> column_names, values |-> <<>>,
                   left_open |-> LeftOpenAfter(TRUE)]
             ELSE IF WarehouseAcceptsInsert(tables, column_names, values)
                  THEN [raises |-> FALSE,
                        rows |-> rows (+) SetToBag({[columns |-> column_names,
                                                     values |-> values]}),
                        rows_loaded |-> 1,
                        column_names |-> column_names, values |-> values,
                        left_open |-> LeftOpenAfter(FALSE)]
                  ELSE [raises |-> InsertFailureRaises(TRUE), rows |-> rows, rows_loaded |-> 0,
                        column_names |-> column_names, values |-> values,
                        left_open |-> LeftOpenAfter(TRUE)]

-----------------------------------------------------------------------------
(* JSON in the free text of a reply of the language model *)

\* a reply, token by token: a fence marker, a brace, a newline, or a word
\* of prose (text that is no JSON)
\* the marker ```json
FenceJson == "fence json"

\* the marker ```
Fence == "fence"

Tokens == {FenceJson, Fence, "{", "}", "\n", "prose"}

Texts == UNION { [1..n -> Tokens] : n \in 0..MaxTextLen }

Min(S) == CHOOSE x \in S : \A y \in S : x <= y

Max(S) == CHOOSE x \in S : \A y \in S : x >= y

\* text.strip(): the newlines at both ends go
Strip(text) ==
    LET keep == {k \in 1..Len(text) : text[k] # "\n"}
    IN  IF keep = {} THEN <<>> ELSE SubSeq(text, Min(keep), Max(keep))

\* text.find("```", start): the position of the first marker from start on
\* ("```json" starts with "```"), 0 for Python's -1
FindFence(text, start) ==
    LET hits == {k \in start..Len(text) : text[k] \in {Fence, FenceJson}}
    IN  IF hits = {} THEN 0 ELSE Min(hits)

\* text.find("```json")
FindFenceJson(text) ==
    LET hits == {k \in 1..Len(text) : text[k] = FenceJson}
    IN  IF hits = {} THEN 0 ELSE Min(hits)

\* text[start:-1]: the last character goes; a word of prose that loses a
\* letter is still prose, a brace or a newline is gone
DropLastChar(text) ==
    IF text = <<>> \/ text[Len(text)] = "prose"
    THEN text
    ELSE SubSeq(text, 1, Len(text) - 1)

\* end = text.find("```", start); text[start:end]
SliceToFence(text, start) ==
    LET end == FindFence(text, start)
    IN  IF end # 0
        THEN SubSeq(text, start, end - 1)
        ELSE DropLastChar(SubSeq(text, start, Len(text)))

\* a slicer that knows the plain marker only: after "```" of "```json" the
\* word json is left in the payload
RemoveCodeBlocksPlainOnly(text) ==
    IF FindFence(text, 1) # 0
    THEN (IF text[FindFence(text, 1)] = FenceJson THEN <<"prose">> ELSE <<>>)
         \o SliceToFence(text, FindFence(text, 1) + 1)
    ELSE text

\* if "```json" in text: ... elif "```" in text: ...
RemoveCodeBlocks(text) ==
    IF FindFenceJson(text) # 0
    THEN SliceToFence(text, FindFenceJson(text) + 1)
    ELSE IF FindFence(text, 1) # 0
         THEN SliceToFence(text, FindFence(text, 1) + 1)
         ELSE text

\* brace_count after the first k tokens
BraceCount(text, k) ==
    Cardinality({j \in 1..k : text[j] = "{"}) - Cardinality({j \in 1..k : text[j] = "}"})

\* if text.startswith('{'): cut after the brace that closes it
CutAfterMatchingBrace(text) ==
    IF text # <<>> /\ text[1] = "{"
    THEN LET closes == {k \in 1..Len(text) : text[k] = "}" /\ BraceCount(text, k) = 0}
         IN  IF closes = {} THEN text ELSE SubSeq(text, 1, Min(closes))
    ELSE text

\* the text without its whitespace
Compact(text) == SelectSeq(text, LAMBDA t : t # "\n")

\* the text is one JSON object: an opening brace, members (nested objects
\* here), the brace that closes it, nothing after
IsJsonObject(text) ==
    LET t == Compact(text)
    IN  /\ Len(t) >= 2
        /\ \A k \in 1..Len(t) : t[k] \in {"{", "}"}
        /\ \A k \in 1..(Len(t) - 1) : BraceCount(t, k) > 0
        /\ BraceCount(t, Len(t)) = 0

\* json.loads(text): the object, or JSONDecodeError
JsonLoads(text) ==
    IF IsJsonObject(text)
    THEN [raises |-> FALSE, value |-> Compact(text)]
    ELSE [raises |-> TRUE, value |-> <<>>]

\* FinancialAnalyzer._extract_json
ExtractJson(text) ==
    JsonLoads(Strip(CutAfterMatchingBrace(Strip(RemoveCodeBlocks(Strip(text))))))

\* DocumentExtractor._parse_json_response
ParseJsonResponse(text) == JsonLoads(Strip(RemoveCodeBlocks(Strip(text))))

\* suggest_metrics_from_markdown: response.text.strip(), the fences,
\* json.loads(response_text.strip())
SuggestionsJson(text) == JsonLoads(Strip(RemoveCodeBlocks(Strip(text))))

\* analyze_query: the same lines for the reply to the query prompt and for
\* the reply to the insights prompt
AnalysisJson(text) == JsonLoads(Strip(RemoveCodeBlocks(Strip(text))))

-----------------------------------------------------------------------------
(* AnalysisAgent.analyze_query *)

Requests == 1..MaxRequests

\* self.min_request_interval = 2.0 (seconds)
min_request_interval == 2

\* max_retries = 3
max_retries == 3

\* time.time() when the agent is constructed: seconds since the epoch, far
\* more than min_request_interval after self.last_request_time = 0
TimeOfConstruction == 10

\* seconds the blocking generate_content call takes when it is served; a
\* call the service refuses (ResourceExhausted) comes back at once
CallDurations == {0, 1}

\* a throttle that measures the interval against nothing
ThrottleWaitNone(time_since_last) ==
    IF time_since_last < 0
    THEN min_request_interval - time_since_last
    ELSE 0

\* if time_since_last < self.min_request_interval:
\*     wait_time = self.min_request_interval - time_since_last
ThrottleWait(time_since_last) ==
    IF time_since_last < min_request_interval
    THEN min_request_interval - time_since_last
    ELSE 0

\* a backoff that does not grow
BackoffWaitFlat(attempt_no) == (2 ^ 0) * 3

\* wait_time = (2 ** attempt) * 3
BackoffWait(attempt_no) == (2 ^ attempt_no) * 3

\* the replies generate_content can give: a text, or ResourceExhausted, or
\* another exception
ReplyTexts ==
    { <<"{", "}">>,
      <<FenceJson, "\n", "{", "}", "\n", Fence>>,
      <<"prose", "{", "}", "prose">>,
      <<"prose">> }

\* what the parsed reply to the query prompt asks for: a follow-up message,
\* nothing (a greeting), or a SQL query
AnalysisKinds == {"followup", "greeting", "sql"}

\* what the parsed reply to the insights prompt holds: a summary and
\* insights, or a summary too short / no insights
InsightsKinds == {"valid", "invalid"}

\* await self.execute_snowflake_query(sql_query)
QueryOutcomes == {"rows", "no_rows", "raised"}

\* the dicts analyze_query returns (available_companies and
\* available_metrics, present in all but the first, are left out)
NotConfiguredResponse ==
    [summary |-> "AI analysis not available - Gemini API key not configured",
     insights |-> <<>>,
     error |-> "Gemini API not configured"]

RateLimitResponse ==
    [summary |-> "The AI service is currently experiencing high demand.",
     insights |-> <<"Rate limit exceeded - please try again in a few seconds">>,
     error |-> "Rate limit exceeded"]

FollowupResponse == [summary |-> "followup_message", insights |-> <<>>]

GreetingResponse ==
    [summary |-> "Hi! I can help you analyze financial data.",
     insights |-> <<"Available companies", "Available metrics">>]

SqlErrorResponse ==
    [summary |-> "I encountered an error while querying the database.",
     insights |-> <<"The query couldn't be executed.">>]

NoResultsResponse ==
    [summary |-> "Sorry, I couldn't find any data matching your request.",
     insights |-> <<"The query executed successfully but returned no results.">>]

\* the return at the end of the try block
AnalysisResponse(summary, insights) ==
    [summary |-> summary, insights |-> insights,
     chart |-> "chart", data |-> "query_results"]

\* summary and insights when the insights reply parsed and is meaningful
AiInsights == AnalysisResponse("summary of the reply", <<"insights of the reply">>)

\* except Exception as parse_error: summary and insights from query_results
FallbackInsights ==
    AnalysisResponse("Analyzing N companies.", <<"- company: Total Assets, Liabilities, Equity">>)

\* else: print("No insights response from AI"): basic insights
BasicInsights ==
    AnalysisResponse("Retrieved N companies from the database.",
                     <<"- company: Assets, Liabilities, Equity">>)

\* an except clause that answers without insights
UnexpectedErrorNoInsights(e) ==
    [summary |-> "I encountered an unexpected error while processing your request.",
     error |-> e]

\* the outer except Exception as e
UnexpectedErrorResponse(e) ==
    [summary |-> "I encountered an unexpected error while processing your request.",
     insights |-> <<"Something went wrong during analysis.">>,
     error |-> e]

\* one generate_content call of the history
Inference(r, call, attempt_no, time) ==
    [request |-> r, call |-> call, attempt |-> attempt_no, time |-> time,
     outcome |-> "in flight"]

\* AnalysisAgent.__init__
AgentConstructed(gemini) ==
    /\ use_gemini = gemini
    /\ last_request_time = 0
    /\ now = TimeOfConstruction
    /\ running = 0
    /\ apc = [r \in Requests |-> "new"]
    /\ attempt = [r \in Requests |-> 0]
    /\ in_flight = {}
    /\ infer_log = <<>>
    /\ sleep_log = <<>>
    /\ throttle_log = <<>>
    /\ response = [r \in Requests |-> None]

\* the coroutine returns: the event loop is free again
Return(r, result) ==
    /\ response' = [response EXCEPT ![r] = Some(result)]
    /\ apc' = [apc EXCEPT ![r] = "done"]
    /\ running' = 0

\* analyze_query up to the query prompt: the event loop starts the request's
\* coroutine `gap` seconds after the last thing it ran; the throttle sleeps
\* (time.sleep blocks the loop) and stamps last_request_time; the awaited
\* get_available_data holds no await of its own, so the coroutine keeps the
\* loop
AnalyzeQuery(r) ==
    /\ running = 0
    /\ apc[r] = "new"
    /\ \E gap \in 0..MaxGap :
          LET current_time == now + gap
              time_since_last == current_time - last_request_time
          IN  IF ~use_gemini
              THEN /\ now' = current_time
                   /\ Return(r, NotConfiguredResponse)
                   /\ UNCHANGED <<last_request_time, throttle_log>>
              ELSE /\ now' = current_time + ThrottleWait(time_since_last)
                   /\ last_request_time' = now'
                   /\ throttle_log' = Append(throttle_log,
                                             [request |-> r, requested |-> current_time,
                                              passed |-> now'])
                   /\ apc' = [apc EXCEPT ![r] = "query"]
                   /\ running' = r
                   /\ UNCHANGED response
    /\ attempt' = [attempt EXCEPT ![r] = 0]
    /\ UNCHANGED <<use_gemini, in_flight, infer_log, sleep_log, pipeline, parsing, designing, finance>>

\* self.model.generate_content(prompt) is entered: the call is in flight
GenerateContent(r) ==
    /\ running = r
    /\ apc[r] \in {"query", "insights"}
    /\ in_flight' = in_flight \cup {r}
    /\ infer_log' = Append(infer_log, Inference(r, apc[r], attempt[r], now))
    /\ apc' = [apc EXCEPT ![r] = IF apc[r] = "query" THEN "query_reply"
                                  ELSE "insights_reply"]
    /\ UNCHANGED <<now, last_request_time, use_gemini, running, attempt, sleep_log,
                   throttle_log, response, pipeline, parsing, designing, finance>>

\* the outcome of the call is written to its entry of the history
Outcome(outcome) == [infer_log EXCEPT ![Len(infer_log)].outcome = outcome]

\* what generate_content can raise: the rate limit, or anything else
InferenceErrors == {"ResourceExhausted", "Exception"}

\* a retry loop that catches every error
IsResourceExhaustedOrOther(error) == error \in {"ResourceExhausted", "Exception"}

\* except ResourceExhausted: the one error the retry loops catch
IsResourceExhausted(error) == error = "ResourceExhausted"

\* except ResourceExhausted, attempt < max_retries - 1: sleep and try again
RetryAfterBackoff(r, call) ==
    /\ now' = now + BackoffWait(attempt[r])
    /\ sleep_log' = Append(sleep_log, [request |-> r, call |-> call,
                                       attempt |-> attempt[r],
                                       wait_time |-> BackoffWait(attempt[r])])
    /\ attempt' = [attempt EXCEPT ![r] = attempt[r] + 1]
    /\ apc' = [apc EXCEPT ![r] = call]
    /\ UNCHANGED <<running, response>>

\* the generate_content call for the query prompt returns or raises, and
\* analyze_query runs on to its next call
QueryReply(r) ==
    /\ running = r
    /\ apc[r] = "query_reply"
    /\ in_flight' = in_flight \ {r}
    /\ \/ \E error \in InferenceErrors :
             /\ infer_log' = Outcome(error)
             /\ IF IsResourceExhausted(error)
                THEN IF attempt[r] < max_retries - 1
                     THEN RetryAfterBackoff(r, "query")
                     ELSE /\ Return(r, RateLimitResponse)
                          /\ UNCHANGED <<now, attempt, sleep_log>>
                ELSE /\ Return(r, UnexpectedErrorResponse(error))
                     /\ UNCHANGED <<now, attempt, sleep_log>>
       \/ \E duration \in CallDurations, text \in ReplyTexts, kind \in AnalysisKinds :
             /\ infer_log' = Outcome(IF AnalysisJson(text).raises
                                     THEN "not JSON" ELSE "JSON")
             /\ now' = now + duration
             /\ IF AnalysisJson(text).raises
                THEN Return(r, UnexpectedErrorResponse("JSONDecodeError"))
                ELSE CASE kind = "followup" -> Return(r, FollowupResponse)
                       [] kind = "greeting" -> Return(r, GreetingResponse)
                       [] OTHER -> /\ apc' = [apc EXCEPT ![r] = "execute_sql"]
                                   /\ UNCHANGED <<running, response>>
             /\ UNCHANGED <<attempt, sleep_log>>
    /\ UNCHANGED <<last_request_time, use_gemini, throttle_log, pipeline, parsing, designing, finance>>

\* await self.execute_snowflake_query(sql_query) and the check of its rows;
\* the coroutine it awaits holds no await either
ExecuteSnowflakeQuery(r) ==
    /\ running = r
    /\ apc[r] = "execute_sql"
    /\ \E outcome \in QueryOutcomes :
          CASE outcome = "raised" -> /\ Return(r, SqlErrorResponse)
                                     /\ UNCHANGED attempt
            [] outcome = "no_rows" -> /\ Return(r, NoResultsResponse)
                                      /\ UNCHANGED attempt
            [] OTHER -> /\ apc' = [apc EXCEPT ![r] = "insights"]
                        /\ attempt' = [attempt EXCEPT ![r] = 0]
                        /\ UNCHANGED <<running, response>>
    /\ UNCHANGED <<now, last_request_time, use_gemini, in_flight, infer_log, sleep_log,
                   throttle_log, pipeline, parsing, designing, finance>>

\* the generate_content call for the insights prompt returns or raises,
\* and analyze_query runs to its return
InsightsReply(r) ==
    /\ running = r
    /\ apc[r] = "insights_reply"
    /\ in_flight' = in_flight \ {r}
    /\ \/ \E error \in InferenceErrors :
             /\ infer_log' = Outcome(error)
             /\ IF IsResourceExhausted(error)
                THEN IF attempt[r] < max_retries - 1
                     THEN RetryAfterBackoff(r, "insights")
                     ELSE /\ Return(r, BasicInsights)
                          /\ UNCHANGED <<now, attempt, sleep_log>>
                ELSE /\ Return(r, UnexpectedErrorResponse(error))
                     /\ UNCHANGED <<now, attempt, sleep_log>>
       \/ \E duration \in CallDurations, text \in ReplyTexts, kind \in InsightsKinds :
             /\ infer_log' = Outcome(IF AnalysisJson(text).raises
                                     THEN "not JSON" ELSE "JSON")
             /\ now' = now + duration
             /\ IF AnalysisJson(text).raises \/ kind = "invalid"
                THEN Return(r, FallbackInsights)
                ELSE Return(r, AiInsights)
             /\ UNCHANGED <<attempt, sleep_log>>
    /\ UNCHANGED <<last_request_time, use_gemini, throttle_log, pipeline, parsing, designing, finance>>

-----------------------------------------------------------------------------
(* The operations that read JSON out of a reply *)

\* the parsed object holds what the operation needs of it (the fields of
\* FinancialInsight; a summary and insights), or it does not
ObjectKinds == {"valid", "invalid"}

\* operations of which one has lost its try / except
CatchesExceptionButSuggest(operation) ==
    operation \in {"analyze", "extract_from_document",
                   "analyze_query: query", "analyze_query: insights"}

\* the operations that read the reply inside try / except Exception
CatchesException(operation) ==
    operation \in {"analyze", "extract_from_document", "suggest_metrics_from_markdown",
                   "analyze_query: query", "analyze_query: insights"}

\* what an operation made of the reply: the outcome of its json.loads,
\* whether an exception left the operation, and the value it returned: the
\* one of the try block, or, when that raised, the one of the except block
Applied(operation, json, failed, normal, fallback) ==
    [operation |-> operation,
     json |-> json,
     raised |-> failed /\ ~CatchesException(operation),
     result |-> IF ~failed THEN Some(normal)
                ELSE IF CatchesException(operation) THEN Some(fallback)
                ELSE None]

\* FinancialInsight(**analysis_json)
AiAnalysis == [type |-> "FinancialInsight", insights |-> <<"insights of the reply">>]

\* _basic_analysis(extraction_results)
BasicAnalysis ==
    [type |-> "FinancialInsight",
     insights |-> <<"Document successfully processed", "Ready for database deployment">>]

\* FinancialAnalyzer.analyze from the reply on
Analyze ==
    /\ parse_result = None
    /\ \E kind \in ObjectKinds :
          LET analysis_json == ExtractJson(response_text)
          IN  parse_result' = Some(Applied("analyze", analysis_json,
                                           analysis_json.raises \/ kind = "invalid",
                                           AiAnalysis, BasicAnalysis))
    /\ UNCHANGED <<response_text, pipeline, analysis, designing, finance>>

\* the ExtractionResult built from result_json
ParsedExtraction == [type |-> "ExtractionResult", source |-> "landingai"]

\* _mock_extraction(file_path)
MockExtraction == [type |-> "ExtractionResult", source |-> "mock"]

\* DocumentExtractor.extract_from_document from the reply on
ExtractFromDocument ==
    /\ parse_result = None
    /\ \E kind \in ObjectKinds :
          LET result_json == ParseJsonResponse(response_text)
          IN  parse_result' = Some(Applied("extract_from_document", result_json,
                                           result_json.raises \/ kind = "invalid",
                                           ParsedExtraction, MockExtraction))
    /\ UNCHANGED <<response_text, pipeline, analysis, designing, finance>>

\* return suggestions: the parsed object as it is
ParsedSuggestions ==
    [suggested_metrics |-> <<MetricRev, MetricEps>>, reasoning |-> "relevant"]

\* return {"suggested_metrics": [], "error": str(e)}
NoSuggestions == [suggested_metrics |-> <<>>, error |-> "JSONDecodeError"]

\* DocumentExtractor.suggest_metrics_from_markdown from the reply on
SuggestMetricsFromReply ==
    /\ parse_result = None
    /\ LET suggestions == SuggestionsJson(response_text)
       IN  parse_result' = Some(Applied("suggest_metrics_from_markdown", suggestions,
                                        suggestions.raises,
                                        ParsedSuggestions, NoSuggestions))
    /\ UNCHANGED <<response_text, pipeline, analysis, designing, finance>>

\* analyze_query from the reply to the query prompt to the next thing it
\* awaits: a reply that does not parse raises to the outer except
AnalysisOfReply ==
    /\ parse_result = None
    /\ LET analysis_json == AnalysisJson(response_text)
       IN  parse_result' = Some(Applied("analyze_query: query", analysis_json,
                                        analysis_json.raises,
                                        FollowupResponse,
                                        UnexpectedErrorResponse("JSONDecodeError")))
    /\ UNCHANGED <<response_text, pipeline, analysis, designing, finance>>

\* analyze_query from the reply to the insights prompt on
InsightsOfReply ==
    /\ parse_result = None
    /\ \E kind \in ObjectKinds :
          LET insights_data == AnalysisJson(response_text)
          IN  parse_result' = Some(Applied("analyze_query: insights", insights_data,
                                           insights_data.raises \/ kind = "invalid",
                                           AiInsights, FallbackInsights))
    /\ UNCHANGED <<response_text, pipeline, analysis, designing, finance>>

-----------------------------------------------------------------------------
(* MetricExtractionPipeline: state, history, entry *)

\* the documents of a suggest batch
FileA == [dir |-> "in", file |-> <<"a", "pdf">>]

FileB == [dir |-> "in", file |-> <<"b", "v2", "pdf">>]

FileLists == UNION { [1..n -> {FileA, FileB}] : n \in 0..MaxDocs }

\* the initial state the API layer hands to the graph
InitialState(current_step, file_paths, md_paths, selected_metrics) ==
    [current_step |-> current_step,
     file_paths |-> file_paths,
     markdown_paths |-> md_paths,
     selected_metrics |-> selected_metrics,
     suggested_metrics |-> <<>>,
     reasoning |-> "",
     schema |-> None,
     deployment_result |-> None,
     extracted_metrics |-> EmptyDict,
     error |-> ""]

\* one entry of the history of calls: doc is the position of the document
\* in the batch's list (0: none)
Call(op, doc, metrics, columns, values, ret, rows) ==
    [op |-> op, doc |-> doc, metrics |-> metrics, columns |-> columns,
     values |-> values, ret |-> ret, rows |-> rows]

locals == <<i, total_rows_loaded, final_deployment_result,
            extracted_metrics_by_document, extraction_data, schema_result,
            markdown_paths>>

warehouse == <<wh_tables, wh_rows, ddl_log, open_connections>>

\* PipelineState of a run of FinancePipeline
FinanceState(file_paths, stop_after) ==
    [file_paths |-> file_paths, stop_after |-> stop_after, extraction_results |-> <<>>,
     analysis |-> <<>>, schema |-> <<>>, deployment_result |-> <<>>]

\* FinancePipeline.__init__, before any request
FinanceConstructed ==
    /\ f_state = FinanceState(<<>>, <<>>)
    /\ f_pc = "idle"
    /\ f_visited = <<>>
    /\ f_deploy_calls = 0

\* MetricExtractionPipeline.__init__, before any request
PipelineConstructed(snowflake) ==
    /\ state = InitialState("suggest", <<>>, <<>>, <<>>)
    /\ pc = "idle"
    /\ i = 0
    /\ total_rows_loaded = 0
    /\ final_deployment_result = None
    /\ extracted_metrics_by_document = EmptyDict
    /\ extraction_data = None
    /\ schema_result = None
    /\ markdown_paths = <<>>
    /\ use_snowflake = snowflake
    /\ wh_tables = [t \in {} |-> <<>>]
    /\ wh_rows = EmptyBag
    /\ open_connections = 0
    /\ calls = <<>>
    /\ ddl_log = {}
    /\ input_metrics = <<>>
    /\ visited = <<>>
    /\ batch = 0

\* no reply is being read
NoReply == response_text = <<>> /\ parse_result = None

Init ==
    /\ \E snowflake \in BOOLEAN : PipelineConstructed(snowflake)
    /\ AgentConstructed(TRUE)
    /\ NoReply
    /\ NoDesign
    /\ FinanceConstructed

\* a request arrives: the graph is invoked on a fresh state
StartBatch ==
    /\ pc \in {"idle", "END", "halted"}
    /\ batch < MaxBatches
    /\ \/ \E files \in FileLists :
             state' = InitialState("suggest", files, <<>>, <<>>)
       \/ \E mds \in PathLists, metrics \in MetricSets :
             state' = InitialState("process", <<>>, mds, metrics)
    /\ pc' = "router"
    /\ batch' = batch + 1
    /\ i' = 0
    /\ total_rows_loaded' = 0
    /\ final_deployment_result' = None
    /\ extracted_metrics_by_document' = EmptyDict
    /\ extraction_data' = None
    /\ schema_result' = None
    /\ markdown_paths' = <<>>
    /\ calls' = <<>>
    /\ input_metrics' = state'.selected_metrics
    /\ visited' = <<>>
    /\ UNCHANGED <<use_snowflake, warehouse>>
    /\ UNCHANGED <<analysis, parsing, designing, finance>>

\* who awaits the graph: run(), or an endpoint that awaits app.ainvoke itself
Callers == {"run", "ainvoke"}

\* what the caller holds after a node raised. run() catches the exception,
\* stores str(e) in the state it was given and returns that state; an
\* endpoint gets the exception and no state: no error field is written
StateAfterRaise(caller, st, message) ==
    IF caller = "run"
    THEN [InitialState(st.current_step, st.file_paths,
                       IF st.current_step = "process" THEN st.markdown_paths ELSE <<>>,
                       st.selected_metrics)
            EXCEPT !.error = message]
    ELSE st

\* a node raised: the graph stops. Nothing before the raise depends on the
\* caller, so the caller is drawn here
Halt(message) ==
    /\ pc' = "halted"
    /\ \E caller \in Callers : state' = StateAfterRaise(caller, state, message)

\* should_suggest_or_process, the other way round
ShouldSuggestOrProcessInverted(st) ==
    IF st.current_step = "process" THEN "suggest" ELSE "process"

\* should_suggest_or_process
ShouldSuggestOrProcess(st) ==
    IF st.current_step = "process" THEN "process" ELSE "suggest"

\* the edges with suggest_metrics wired into the process flow
EdgeSuggestIntoProcess(node) ==
    CASE node = "extract_markdown" -> "suggest_metrics"
      [] node = "suggest_metrics" -> "design_metrics_schema"
      [] node = "extract_metrics" -> "design_metrics_schema"
      [] node = "design_metrics_schema" -> "deploy_metrics"
      [] OTHER -> "END"

\* the edges with deploy_metrics wired back to extract_metrics
EdgeDeployLoopsBack(node) ==
    CASE node = "extract_markdown" -> "suggest_metrics"
      [] node = "suggest_metrics" -> "END"
      [] node = "extract_metrics" -> "design_metrics_schema"
      [] node = "design_metrics_schema" -> "deploy_metrics"
      [] OTHER -> "extract_metrics"

\* the edges of the graph (add_edge)
Edge(node) ==
    CASE node = "extract_markdown" -> "suggest_metrics"
      [] node = "suggest_metrics" -> "END"
      [] node = "extract_metrics" -> "design_metrics_schema"
      [] node = "design_metrics_schema" -> "deploy_metrics"
      [] OTHER -> "END"

\* the node that starts is added to the history of the run
Visit(node, starts) == IF starts THEN Append(visited, node) ELSE visited

\* router_node and the conditional edge out of it
RouterNode ==
    /\ pc = "router"
    /\ pc' = IF ShouldSuggestOrProcess(state) = "process"
             THEN "extract_metrics" ELSE "extract_markdown"
    /\ i' = 1
    /\ visited' = Visit("router", TRUE)
    /\ UNCHANGED <<state, total_rows_loaded, final_deployment_result,
                   extracted_metrics_by_document, extraction_data, schema_result,
                   markdown_paths, use_snowflake, warehouse, calls, input_metrics, batch>>
    /\ UNCHANGED <<analysis, parsing, designing, finance>>

-----------------------------------------------------------------------------
(* "Suggest" branch *)

\* os.path.join(output_dir, splitext(basename(file_path))[0] + ".md")
MarkdownPathOf(file_path) ==
    [dir |-> "uploads",
     file |-> SubSeq(file_path.file, 1, Len(file_path.file) - 1) \o <<"md">>]

\* extract_markdown_node, one turn of its loop: extract_markdown_from_document
\* returns the markdown path or raises
ExtractMarkdownDocument ==
    /\ pc = "extract_markdown"
    /\ i <= Len(state.file_paths)
    /\ \E outcome \in {"ok", "failed"} :
          IF outcome = "ok"
          THEN /\ markdown_paths' = Append(markdown_paths, MarkdownPathOf(state.file_paths[i]))
               /\ i' = i + 1
               /\ calls' = Append(calls, Call("extract_markdown_from_document", i,
                                              <<>>, <<>>, <<>>, "returned", 0))
               /\ UNCHANGED <<state, pc>>
          ELSE /\ Halt("markdown extraction failed")
               /\ calls' = Append(calls, Call("extract_markdown_from_document", i,
                                              <<>>, <<>>, <<>>, "raised", 0))
               /\ UNCHANGED <<markdown_paths, i>>
    /\ visited' = Visit("extract_markdown", i = 1)
    /\ UNCHANGED <<total_rows_loaded, final_deployment_result,
                   extracted_metrics_by_document, extraction_data, schema_result,
                   use_snowflake, warehouse, input_metrics, batch>>
    /\ UNCHANGED <<analysis, parsing, designing, finance>>

\* extract_markdown_node returns its patch
ExtractMarkdownReturn ==
    /\ pc = "extract_markdown"
    /\ i > Len(state.file_paths)
    /\ state' = [state EXCEPT !.markdown_paths = markdown_paths]
    /\ pc' = Edge("extract_markdown")
    /\ visited' = Visit("extract_markdown", state.file_paths = <<>>)
    /\ UNCHANGED <<locals, use_snowflake, warehouse, calls, input_metrics, batch>>
    /\ UNCHANGED <<analysis, parsing, designing, finance>>

\* what a suggest_metrics_from_markdown call can come to: the reply parsed
\* into suggestions ("ok"), the language model not configured
\* ("unavailable"), the markdown file not read ("unreadable"), the call of
\* the language model or the parse of its reply failed ("error")
SuggestOutcomes == {"ok", "unavailable", "unreadable", "error"}

\* generate_content(prompt) is reached when the model is configured and the
\* markdown was read
SuggestInferenceCalls(outcome, doc) ==
    IF outcome \in {"ok", "error"}
    THEN << Call("generate_content", doc, <<>>, <<>>, <<>>, "returned", 0) >>
    ELSE <<>>

\* a node that suggests from the last document
SuggestDocumentLast(paths) == Len(paths)

\* first_markdown_path = state["markdown_paths"][0]
SuggestDocument(paths) == 1

\* suggest_metrics_from_markdown: the parsed suggestions, or the fallback
\* dict without "reasoning"
SuggestMetricsFromMarkdown(outcome) ==
    IF outcome = "ok"
    THEN [suggested_metrics |-> <<MetricRev, MetricEps>>, reasoning |-> "relevant"]
    ELSE [suggested_metrics |-> <<>>, reasoning |-> ""]

\* suggest_metrics_node
SuggestMetricsNode ==
    /\ pc = "suggest_metrics"
    /\ IF state.markdown_paths = <<>>
       THEN /\ Halt("list index out of range")
            /\ UNCHANGED calls
       ELSE \E outcome \in SuggestOutcomes :
               LET suggestions == SuggestMetricsFromMarkdown(outcome)
                   doc == SuggestDocument(state.markdown_paths)
               IN  /\ state' = [state EXCEPT
                                  !.suggested_metrics = suggestions.suggested_metrics,
                                  !.reasoning = suggestions.reasoning]
                   /\ pc' = Edge("suggest_metrics")
                   /\ calls' = calls \o SuggestInferenceCalls(outcome, doc)
                                \o << Call("suggest_metrics_from_markdown", doc,
                                            <<>>, <<>>, <<>>, outcome, 0) >>
    /\ visited' = Visit("suggest_metrics", TRUE)
    /\ UNCHANGED <<locals, use_snowflake, warehouse, input_metrics, batch>>
    /\ UNCHANGED <<analysis, parsing, designing, finance>>

-----------------------------------------------------------------------------
(* "Process" branch *)

\* history entry of one extraction: "failed" as the nodes test it, "ok" when
\* the extraction holds exactly the fields asked for, "off_schema" otherwise
ExtractCall(doc, metrics, data) ==
    Call("extract_metrics_from_markdown", doc, metrics, <<>>, <<>>,
         IF ExtractionFailed(data) THEN "failed"
         ELSE IF DOMAIN data.extraction = SchemaFields(metrics) THEN "ok"
         ELSE "off_schema", 0)

\* extract_metrics_node: extracts from the first document only
ExtractMetricsNode ==
    /\ pc = "extract_metrics"
    /\ IF state.markdown_paths = <<>>
       THEN /\ Halt("list index out of range")
            /\ UNCHANGED calls
       ELSE \E outcome \in ExtractOutcomesFor(state.selected_metrics) :
               LET extraction_data_1 ==
                       ExtractMetricsFromMarkdown(outcome, state.markdown_paths[1],
                                                  state.selected_metrics)
               IN  /\ state' = [state EXCEPT !.extracted_metrics = extraction_data_1.extraction]
                   /\ pc' = Edge("extract_metrics")
                   /\ calls' = Append(calls, ExtractCall(1, state.selected_metrics,
                                                         extraction_data_1))
    /\ visited' = Visit("extract_metrics", TRUE)
    /\ UNCHANGED <<locals, use_snowflake, warehouse, input_metrics, batch>>
    /\ UNCHANGED <<analysis, parsing, designing, finance>>

\* a designer that is handed the first selected metric only
DesignCallMetricsFirstOnly(st) ==
    SubSeq(st.selected_metrics, 1, IF st.selected_metrics = <<>> THEN 0 ELSE 1)

\* the metrics the nodes hand to design_schema
DesignCallMetrics(st) == st.selected_metrics

\* design_metrics_schema_node
DesignMetricsSchemaNode ==
    /\ pc = "design_metrics_schema"
    /\ state' = [state EXCEPT !.schema =
                    Some(DesignSchema(state.extracted_metrics, DesignCallMetrics(state)))]
    /\ pc' = Edge("design_metrics_schema")
    /\ calls' = Append(calls, Call("design_schema", 0, DesignCallMetrics(state),
                                   <<>>, <<>>, "returned", 0))
    /\ visited' = Visit("design_metrics_schema", TRUE)
    /\ UNCHANGED <<locals, use_snowflake, warehouse, input_metrics, batch>>
    /\ UNCHANGED <<analysis, parsing, designing, finance>>

\* the else branch without its return: the node falls through to the loop
AfterFirstExtractionNoReturn(first_extraction_data) ==
    IF ~first_extraction_data.error /\ Truthy(first_extraction_data.extraction)
    THEN "create_schema"
    ELSE "loop"

\* deploy_metrics_node, after the first document's extraction: create the
\* schema, or print the failure and return
AfterFirstExtraction(first_extraction_data) ==
    IF ~first_extraction_data.error /\ Truthy(first_extraction_data.extraction)
    THEN "create_schema"
    ELSE "return"

\* the patch deploy_metrics_node returns; extracted_metrics_by_document is
\* no key of MetricState, the graph keeps the keys it knows
DeployPatch(st, deployment_result, by_document) ==
    [st EXCEPT !.deployment_result = deployment_result,
               !.extracted_metrics = by_document]

\* deploy_metrics_node, step 1 up to the schema design
DeployMetricsNode ==
    /\ pc = "deploy_metrics"
    /\ total_rows_loaded' = 0
    /\ final_deployment_result' = None
    /\ extracted_metrics_by_document' = EmptyDict
    /\ i' = 1
    /\ IF Truthy(state.markdown_paths)
       THEN \E outcome \in ExtractOutcomesFor(state.selected_metrics) :
               LET first_extraction_data ==
                       ExtractMetricsFromMarkdown(outcome, state.markdown_paths[1],
                                                  state.selected_metrics)
                   next == AfterFirstExtraction(first_extraction_data)
                   extract == ExtractCall(1, state.selected_metrics, first_extraction_data)
               IN  CASE next = "create_schema" ->
                          /\ schema_result' = Some(DesignSchema(first_extraction_data.extraction,
                                                                DesignCallMetrics(state)))
                          /\ calls' = calls \o << extract,
                                         Call("design_schema", 0, DesignCallMetrics(state),
                                              <<>>, <<>>, "returned", 0) >>
                          /\ pc' = "create_schema"
                          /\ UNCHANGED state
                    [] next = "return" ->
                          /\ state' = DeployPatch(state, None, EmptyDict)
                          /\ calls' = Append(calls, extract)
                          /\ pc' = Edge("deploy_metrics")
                          /\ UNCHANGED schema_result
                    [] OTHER ->
                          /\ calls' = Append(calls, extract)
                          /\ pc' = "extract_document"
                          /\ UNCHANGED <<state, schema_result>>
       ELSE /\ pc' = "extract_document"
            /\ UNCHANGED <<state, schema_result, calls>>
    /\ visited' = Visit("deploy_metrics", TRUE)
    /\ UNCHANGED <<extraction_data, markdown_paths, use_snowflake, warehouse, input_metrics, batch>>
    /\ UNCHANGED <<analysis, parsing, designing, finance>>

\* deploy_metrics_node: create_schema_if_not_exists(schema_result)
DeployCreateSchema ==
    /\ pc = "create_schema"
    /\ \E outcome \in WarehouseOutcomes :
          LET r == CreateSchemaIfNotExists(use_snowflake, outcome, wh_tables, schema_result[1])
              columns == ColumnNames(schema_result[1].tables[1].columns)
          IN  /\ wh_tables' = r.tables
              /\ open_connections' = open_connections + r.left_open
              /\ IF r.raises
                 THEN /\ Halt("Schema creation error")
                      /\ calls' = Append(calls, Call("create_schema_if_not_exists", 0, <<>>,
                                                     columns, <<>>, "raised", 0))
                      /\ UNCHANGED <<final_deployment_result, ddl_log>>
                 ELSE /\ final_deployment_result' = r.result
                      /\ calls' = Append(calls, Call("create_schema_if_not_exists", 0, <<>>,
                                                     columns, <<>>, "returned", 0))
                      /\ ddl_log' = ddl_log \cup
                            {[schema |-> schema_result[1],
                              repeated |-> \E e \in ddl_log : e.schema = schema_result[1],
                              new_tables |-> DOMAIN r.tables \ DOMAIN wh_tables,
                              tables_created |-> r.result[1].tables_created]}
                      /\ pc' = "extract_document"
                      /\ UNCHANGED state
    /\ UNCHANGED <<i, total_rows_loaded, extracted_metrics_by_document, extraction_data,
                   schema_result, markdown_paths, use_snowflake, wh_rows, input_metrics,
                   visited, batch>>
    /\ UNCHANGED <<analysis, parsing, designing, finance>>

\* a loop that walks the list from its end
LoopDocumentReversed(paths, turn) == Len(paths) - turn + 1

\* for md_path in state["markdown_paths"]: the position of the document of
\* the loop's turn
LoopDocument(paths, turn) == turn

\* deploy_metrics_node, one turn of the loop up to the insert: a document
\* whose extraction failed is skipped
DeployExtractDocument ==
    /\ pc = "extract_document"
    /\ i <= Len(state.markdown_paths)
    /\ \E outcome \in ExtractOutcomesFor(state.selected_metrics) :
          LET doc == LoopDocument(state.markdown_paths, i)
              md_path == state.markdown_paths[doc]
              doc_name == DocName(md_path)
              data == ExtractMetricsFromMarkdown(outcome, md_path, state.selected_metrics)
          IN  /\ calls' = Append(calls, ExtractCall(doc, state.selected_metrics, data))
              /\ IF ExtractionFailed(data)
                 THEN /\ i' = i + 1
                      /\ UNCHANGED <<pc, extracted_metrics_by_document, extraction_data>>
                 ELSE /\ extracted_metrics_by_document' =
                            [d \in DOMAIN extracted_metrics_by_document \cup {doc_name} |->
                                IF d = doc_name THEN data.extraction
                                ELSE extracted_metrics_by_document[d]]
                      /\ extraction_data' = Some(data)
                      /\ pc' = "insert_metrics_row"
                      /\ UNCHANGED i
    /\ UNCHANGED <<state, total_rows_loaded, final_deployment_result, schema_result,
                   markdown_paths, use_snowflake, warehouse, input_metrics, visited, batch>>
    /\ UNCHANGED <<analysis, parsing, designing, finance>>

\* a loop that hands over only the metrics it finds in the extraction
InsertCallMetricsNarrowed(st, extraction) ==
    SelectSeq(st.selected_metrics, LAMBDA m : Lower(m.name) \in DOMAIN extraction)

\* the metrics the loop hands to insert_metrics_row
InsertCallMetrics(st, extraction) == st.selected_metrics

\* a total that counts the inserts attempted
AddRowsCountsAttempts(total, rows_inserted) == total + 1

\* total_rows_loaded += rows_inserted
AddRows(total, rows_inserted) == total + rows_inserted

\* deploy_metrics_node, the insert of the loop's document
DeployInsertRow ==
    /\ pc = "insert_metrics_row"
    /\ \E outcome \in WarehouseOutcomes :
          LET extraction == extraction_data[1].extraction
              metrics == InsertCallMetrics(state, extraction)
              doc == LoopDocument(state.markdown_paths, i)
              r == InsertMetricsRow(use_snowflake, outcome, wh_tables, wh_rows, extraction,
                                    metrics, DocName(state.markdown_paths[doc]))
          IN  /\ wh_rows' = r.rows
              /\ open_connections' = open_connections + r.left_open
              /\ calls' = Append(calls, Call("insert_metrics_row", doc, metrics, r.column_names,
                                             r.values,
                                             IF r.raises THEN "raised" ELSE "returned",
                                             r.rows_loaded))
              /\ IF r.raises
                 THEN /\ Halt("Snowflake credentials not configured")
                      /\ UNCHANGED <<i, total_rows_loaded>>
                 ELSE /\ total_rows_loaded' = AddRows(total_rows_loaded, r.rows_loaded)
                      /\ i' = i + 1
                      /\ pc' = "extract_document"
                      /\ UNCHANGED state
    /\ UNCHANGED <<final_deployment_result, extracted_metrics_by_document, extraction_data,
                   schema_result, markdown_paths, use_snowflake, wh_tables, ddl_log,
                   input_metrics, visited, batch>>
    /\ UNCHANGED <<analysis, parsing, designing, finance>>

\* a return that forgets the row total: rows_loaded stays as schema creation set it
FinalDeploymentResultNoRows(result, total) ==
    IF Truthy(result)
    THEN Some([result[1] EXCEPT !.status = "success"])
    ELSE result

\* final_deployment_result.rows_loaded = total_rows_loaded; .status = "success"
FinalDeploymentResult(result, total) ==
    IF Truthy(result)
    THEN Some([result[1] EXCEPT !.rows_loaded = total, !.status = "success"])
    ELSE result

\* deploy_metrics_node, after the loop: the result is completed and returned
DeployMetricsReturn ==
    /\ pc = "extract_document"
    /\ i > Len(state.markdown_paths)
    /\ final_deployment_result' = FinalDeploymentResult(final_deployment_result,
                                                        total_rows_loaded)
    /\ state' = DeployPatch(state, final_deployment_result', extracted_metrics_by_document)
    /\ pc' = Edge("deploy_metrics")
    /\ UNCHANGED <<i, total_rows_loaded, extracted_metrics_by_document, extraction_data,
                   schema_result, markdown_paths, use_snowflake, warehouse, calls,
                   input_metrics, visited, batch>>
    /\ UNCHANGED <<analysis, parsing, designing, finance>>

-----------------------------------------------------------------------------
(* FinancePipeline *)

\* the values of stop_after a caller may send; none at all is None
StopAfterInputs ==
    {<<>>} \cup {<<v>> : v \in {"extract", "analyze", "schema", "deploy", "all", "everything"}}

\* state.get("stop_after", "all")
StopAfter(st) == IF st.stop_after = <<>> THEN "all" ELSE st.stop_after[1]

\* app.ainvoke(initial_state): the graph starts at its entry point
FinanceInvoke ==
    /\ f_pc = "idle"
    /\ \E files \in FileLists, stop_after \in StopAfterInputs :
          f_state' = FinanceState(files, stop_after)
    /\ f_pc' = "extract_documents"
    /\ UNCHANGED <<f_visited, f_deploy_calls, pipeline, analysis, parsing, designing>>

\* should_continue_after_extract
ShouldContinueAfterExtract(st) ==
    IF StopAfter(st) = "extract" THEN "stop" ELSE "continue"

\* should_continue_after_analyze
ShouldContinueAfterAnalyze(st) ==
    IF StopAfter(st) = "analyze" THEN "stop" ELSE "continue"

\* a check after the schema that stops for no value
ShouldContinueAfterSchemaAlways(st) ==
    IF StopAfter(st) = "schema" THEN "continue" ELSE "continue"

\* should_continue_after_schema
ShouldContinueAfterSchema(st) ==
    IF StopAfter(st) = "schema" THEN "stop" ELSE "continue"

\* the edges of build_graph
FinanceEdge(node, st) ==
    CASE node = "extract_documents" ->
            IF ShouldContinueAfterExtract(st) = "continue" THEN "analyze_data" ELSE "END"
      [] node = "analyze_data" ->
            IF ShouldContinueAfterAnalyze(st) = "continue" THEN "design_schema" ELSE "END"
      [] node = "design_schema" ->
            IF ShouldContinueAfterSchema(st) = "continue" THEN "deploy_to_snowflake"
            ELSE "END"
      [] OTHER -> "END"

\* extract_documents_node: one ExtractionResult per file, in list order;
\* extract_from_document returns the mock extraction for what it cannot read
ExtractDocumentsNode ==
    /\ f_pc = "extract_documents"
    /\ \E results \in [1..Len(f_state.file_paths) -> {ParsedExtraction, MockExtraction}] :
          f_state' = [f_state EXCEPT !.extraction_results = results]
    /\ f_visited' = Append(f_visited, "extract_documents")
    /\ f_pc' = FinanceEdge("extract_documents", f_state')
    /\ UNCHANGED <<f_deploy_calls, pipeline, analysis, parsing, designing>>

\* analyze_data_node: analyze returns the analysis of the reply or the basic one
AnalyzeDataNode ==
    /\ f_pc = "analyze_data"
    /\ \E insight \in {AiAnalysis, BasicAnalysis} :
          f_state' = [f_state EXCEPT !.analysis = <<insight>>]
    /\ f_visited' = Append(f_visited, "analyze_data")
    /\ f_pc' = FinanceEdge("analyze_data", f_state')
    /\ UNCHANGED <<f_deploy_calls, pipeline, analysis, parsing, designing>>

\* design_schema_node: no metrics are passed, so design_schema returns the
\* star schema, with the extraction results or by default
DesignSchemaNode ==
    /\ f_pc = "design_schema"
    /\ f_state' = [f_state EXCEPT !.schema = <<DesignSchema(<<>>, <<>>)>>]
    /\ f_visited' = Append(f_visited, "design_schema")
    /\ f_pc' = FinanceEdge("design_schema", f_state')
    /\ UNCHANGED <<f_deploy_calls, pipeline, analysis, parsing, designing>>

\* deployer.deploy(schema, extraction_results): _deploy_standard when there
\* are extraction results, _deploy_schema_only otherwise; without
\* credentials, and when the warehouse fails, it raises
Deploy(use_sf, outcome, schema, extraction_results) ==
    IF ~use_sf \/ outcome # "ok"
    THEN [raises |-> TRUE, result |-> <<>>]
    ELSE [raises |-> FALSE,
          result |-> << DeploymentResult(Len(schema.tables), 0,
                                         IF extraction_results # <<>> THEN "success"
                                         ELSE "success (schema only)") >>]

\* deploy_to_snowflake_node
DeployToSnowflakeNode ==
    /\ f_pc = "deploy_to_snowflake"
    /\ \E outcome \in WarehouseOutcomes :
          LET r == Deploy(use_snowflake, outcome, f_state.schema[1],
                          f_state.extraction_results)
          IN  IF r.raises
              THEN f_pc' = "halted" /\ UNCHANGED f_state
              ELSE /\ f_state' = [f_state EXCEPT !.deployment_result = r.result]
                   /\ f_pc' = FinanceEdge("deploy_to_snowflake", f_state')
    /\ f_visited' = Append(f_visited, "deploy_to_snowflake")
    /\ f_deploy_calls' = f_deploy_calls + 1
    /\ UNCHANGED <<pipeline, analysis, parsing, designing>>

-----------------------------------------------------------------------------
(* Specification *)

Next ==
    \/ StartBatch
    \/ RouterNode
    \/ ExtractMarkdownDocument
    \/ ExtractMarkdownReturn
    \/ SuggestMetricsNode
    \/ ExtractMetricsNode
    \/ DesignMetricsSchemaNode
    \/ DeployMetricsNode
    \/ DeployCreateSchema
    \/ DeployExtractDocument
    \/ DeployInsertRow
    \/ DeployMetricsReturn

Spec == Init /\ [][Next]_vars

\* the steps of a run: once invoked, the graph runs its nodes and every
\* awaited call returns or raises
RunStep ==
    \/ RouterNode
    \/ ExtractMarkdownDocument
    \/ ExtractMarkdownReturn
    \/ SuggestMetricsNode
    \/ ExtractMetricsNode
    \/ DesignMetricsSchemaNode
    \/ DeployMetricsNode
    \/ DeployCreateSchema
    \/ DeployExtractDocument
    \/ DeployInsertRow
    \/ DeployMetricsReturn

FairSpec == Spec /\ WF_vars(RunStep)

\* the analysis agent serves requests; no batch runs
AgentInit ==
    /\ PipelineConstructed(FALSE)
    /\ \E gemini \in BOOLEAN : AgentConstructed(gemini)
    /\ NoReply
    /\ NoDesign
    /\ FinanceConstructed

AgentNext ==
    \E r \in Requests :
        \/ AnalyzeQuery(r)
        \/ GenerateContent(r)
        \/ QueryReply(r)
        \/ ExecuteSnowflakeQuery(r)
        \/ InsightsReply(r)

AgentSpec == AgentInit /\ [][AgentNext]_vars

\* a coroutine that has started runs on: the calls it blocks in return or
\* raise, the sleeps end
AgentRunStep ==
    \E r \in Requests :
        \/ GenerateContent(r)
        \/ QueryReply(r)
        \/ ExecuteSnowflakeQuery(r)
        \/ InsightsReply(r)

FairAgentSpec == AgentSpec /\ WF_vars(AgentRunStep)

\* an operation reads one reply of the language model
ParseInit ==
    /\ PipelineConstructed(FALSE)
    /\ AgentConstructed(TRUE)
    /\ response_text \in Texts
    /\ parse_result = None
    /\ NoDesign
    /\ FinanceConstructed

ParseNext ==
    \/ Analyze
    \/ ExtractFromDocument
    \/ SuggestMetricsFromReply
    \/ AnalysisOfReply
    \/ InsightsOfReply

ParseSpec == ParseInit /\ [][ParseNext]_vars

\* a design_schema call on one metrics argument
DesignInit ==
    /\ PipelineConstructed(FALSE)
    /\ AgentConstructed(TRUE)
    /\ NoReply
    /\ design_metrics \in MetricLists
    /\ design_result = None
    /\ FinanceConstructed

DesignNext == DesignSchemaCall

DesignSpec == DesignInit /\ [][DesignNext]_vars

\* one run of FinancePipeline
FinanceInit ==
    /\ \E snowflake \in BOOLEAN : PipelineConstructed(snowflake)
    /\ AgentConstructed(TRUE)
    /\ NoReply
    /\ NoDesign
    /\ FinanceConstructed

FinanceNext ==
    \/ FinanceInvoke
    \/ ExtractDocumentsNode
    \/ AnalyzeDataNode
    \/ DesignSchemaNode
    \/ DeployToSnowflakeNode

FinanceSpec == FinanceInit /\ [][FinanceNext]_vars

-----------------------------------------------------------------------------
(* Vocabulary of the properties *)

ProcessBatch == state.current_step = "process"

NumDocs == Len(state.markdown_paths)

CallsOf(op) == {k \in 1..Len(calls) : calls[k].op = op}

SchemaCalls == CallsOf("create_schema_if_not_exists")

InsertCalls == CallsOf("insert_metrics_row")

ExtractCalls == CallsOf("extract_metrics_from_markdown")

\* the inserts of the batch that returned 1 / 0
InsertsDone == {k \in InsertCalls : calls[k].ret = "returned" /\ calls[k].rows = 1}

InsertsFailed == {k \in InsertCalls : calls[k].ret = "returned" /\ calls[k].rows = 0}

\* the row an insert call of the history wrote
RowOf(k) == [columns |-> calls[k].columns, values |-> calls[k].values]

\* a process batch over at least one document and a non-empty metric set
\* has run to the end of the graph
ProcessBatchEnded ==
    pc = "END" /\ ProcessBatch /\ NumDocs >= 1 /\ Truthy(state.selected_metrics)

\* the values the document at position doc holds for the metrics, in order
ExtractedValues(doc, metrics) ==
    [k \in 1..Len(metrics) |-> DocValue(state.markdown_paths[doc])]

\* the inserts of the batch that sent an INSERT to the warehouse
InsertsIssued == {k \in InsertCalls : calls[k].columns # <<>>}

\* the loop has just come back from insert_metrics_row: the last call of the
\* history is the insert of the extraction the loop still holds
InsertJustIssued ==
    /\ calls # <<>>
    /\ calls[Len(calls)].op = "insert_metrics_row"
    /\ calls[Len(calls)].columns # <<>>
    /\ Truthy(extraction_data)

LastCall == calls[Len(calls)]

\* DOCUMENT_NAME, then upper(name) of each metric in list order
ExpectedInsertColumns(metrics) ==
    <<"DOCUMENT_NAME">> \o [j \in 1..Len(metrics) |-> Upper(metrics[j].name)]

\* the nodes of the two paths
SuggestNodes == {"extract_markdown", "suggest_metrics"}

ProcessNodes == {"extract_metrics", "design_metrics_schema", "deploy_metrics"}

Terminated == pc \in {"END", "halted"}

-----------------------------------------------------------------------------
(* Properties *)

\* C1: in every process batch over N >= 1 documents schema creation
\* (create_schema_if_not_exists) is invoked exactly once, whichever
\* extractions succeed or fail.
C1_SchemaCreatedExactlyOnce ==
    ProcessBatchEnded => Cardinality(SchemaCalls) = 1

\* C2: every insert_metrics_row call of a batch comes after a
\* create_schema_if_not_exists call of that batch that returned; no insert
\* is issued before or without a completed schema creation.
C2_InsertAfterSchemaCreated ==
    \A k \in InsertCalls :
        \E j \in 1..(k - 1) :
            calls[j].op = "create_schema_if_not_exists" /\ calls[j].ret = "returned"

C2_Witness ==
    /\ pc = "END"
    /\ Cardinality(InsertCalls) = 2
    /\ InsertsDone # {}

\* C3: create_schema_if_not_exists called again with a schema it was
\* already called with creates no warehouse object and reports
\* tables_created = 0.
C3_SecondCreateReportsZeroTables ==
    \A e \in ddl_log : e.repeated => e.new_tables = {} /\ e.tables_created = 0

\* C4: a failing insert is caught inside insert_metrics_row (it returns 0
\* and never raises to the batch), no row committed for a document of the
\* batch is undone, and every later document is still extracted and, when
\* its extraction is non-empty, inserted.
C4_InsertFailureIsolated ==
    /\ \A k \in InsertCalls : calls[k].ret = "returned" /\ calls[k].rows \in {0, 1}
    /\ \A k \in InsertsDone :
          CopiesIn(RowOf(k), wh_rows) >=
              Cardinality({j \in InsertsDone : RowOf(j) = RowOf(k)})
    /\ pc = "END" =>
          \A k \in InsertsFailed :
              \A d \in (calls[k].doc + 1)..NumDocs :
                  \E e \in ExtractCalls :
                      /\ e > k
                      /\ calls[e].doc = d
                      /\ calls[e].ret # "failed" =>
                            /\ e + 1 \in InsertCalls
                            /\ calls[e + 1].doc = d

C4_Witness ==
    /\ pc = "END"
    /\ \E k \in InsertsFailed, j \in InsertsDone :
          /\ calls[k].doc = 1
          /\ calls[j].doc = 2
          /\ CopiesIn(RowOf(j), wh_rows) >= 1

\* C5: an extraction failure of a single document, at any position, is not
\* fatal: the batch ends with a deployment result, and every document with
\* a non-empty extraction has its insert attempted.
C5_ExtractionFailureNotFatal ==
    ProcessBatchEnded =>
        /\ Truthy(state.deployment_result)
        /\ \A d \in 1..NumDocs :
              ( /\ \E e \in ExtractCalls : calls[e].doc = d
                /\ \A e \in ExtractCalls : calls[e].doc = d => calls[e].ret # "failed" )
              => \E k \in InsertCalls : calls[k].doc = d

\* C6: when a document's row was inserted and the extraction of a later
\* document then fails, the row stays committed in the warehouse and is
\* counted in the final DeploymentResult.rows_loaded.
C6_RowSurvivesLaterExtractionFailure ==
    pc = "END" =>
        \A k \in InsertsDone :
            (\E e \in ExtractCalls :
                 e > k /\ calls[e].doc > calls[k].doc /\ calls[e].ret = "failed")
            => /\ CopiesIn(RowOf(k), wh_rows) >= 1
               /\ Truthy(state.deployment_result)
               /\ state.deployment_result[1].rows_loaded = Cardinality(InsertsDone)
               /\ state.deployment_result[1].rows_loaded >= 1

C6_Witness ==
    /\ pc = "END"
    /\ \E k \in InsertsDone, e \in ExtractCalls :
          /\ calls[k].doc = 1
          /\ e > k
          /\ calls[e].doc = 2
          /\ calls[e].ret = "failed"

\* C7: at the end of a process batch DeploymentResult.status is "success"
\* only if every document's row was inserted, and "partial" whenever at
\* least one but not all rows were inserted.
C7_StatusTellsPartialFromSuccess ==
    (ProcessBatchEnded /\ Truthy(state.deployment_result)) =>
        LET status == state.deployment_result[1].status
            inserted == Cardinality(InsertsDone)
        IN  /\ status = "success" => inserted = NumDocs
            /\ (0 < inserted /\ inserted < NumDocs) => status = "partial"

\* C8: when some inserts of a batch fail while others succeed, the final
\* result records the number of failed documents, equal to the number of
\* documents whose insert returned 0.
C8_FailureCountRecorded ==
    (ProcessBatchEnded /\ InsertsFailed # {} /\ InsertsDone # {}) =>
        /\ Truthy(state.deployment_result)
        /\ "failed_documents" \in DOMAIN state.deployment_result[1]
        /\ state.deployment_result[1].failed_documents = Cardinality(InsertsFailed)

\* C9: end to end, for a non-empty metric set and N documents whose
\* extractions and inserts all succeed: exactly one CREATE TABLE for the
\* metrics table, exactly N rows, each with its document's extracted
\* values, rows_loaded = N and status "success".
C9_EndToEnd ==
    ( /\ ProcessBatchEnded
      /\ \A e \in ExtractCalls : calls[e].ret = "ok"
      /\ \A d \in 1..NumDocs : \E k \in InsertsDone : calls[k].doc = d )
    => /\ Cardinality(SchemaCalls) = 1
       /\ Len(state.schema[1].ddl_sql) = 1
       /\ state.schema[1].ddl_sql[1].table_name = "EXTRACTED_METRICS"
       /\ Cardinality(InsertCalls) = NumDocs
       /\ \A k \in InsertCalls :
             calls[k].values = <<DocName(state.markdown_paths[calls[k].doc])>>
                               \o ExtractedValues(calls[k].doc, state.selected_metrics)
       /\ state.deployment_result[1].rows_loaded = NumDocs
       /\ state.deployment_result[1].status = "success"

\* C10: throughout a process batch the metric list is fixed: the state's
\* selected_metrics stays the batch's input, and design_schema, the schema
\* that is created and every insert_metrics_row call are given that list,
\* same names in the same order.
C10_MetricListFixed ==
    (ProcessBatch /\ pc # "idle") =>
        /\ state.selected_metrics = input_metrics
        /\ \A k \in CallsOf("design_schema") \cup InsertCalls \cup ExtractCalls :
              calls[k].metrics = input_metrics
        /\ \A k \in SchemaCalls :
              calls[k].columns =
                  ColumnNames(DesignSchema(EmptyDict, input_metrics).tables[1].columns)

C10_Witness ==
    /\ pc = "END"
    /\ ProcessBatch
    /\ Len(input_metrics) = 2
    /\ SchemaCalls # {}
    /\ Cardinality(InsertCalls) = 2

\* C11: the warehouse table is never narrower than the active metric set:
\* every column an INSERT of insert_metrics_row names exists in
\* EXTRACTED_METRICS as the warehouse holds it at that moment, also when the
\* table was created by an earlier batch with another metric set (tables of
\* the warehouse are never altered, so the table now is the table then).
C11_InsertColumnsExist ==
    Truthy(input_metrics) =>
        \A k \in InsertsIssued :
            /\ "EXTRACTED_METRICS" \in DOMAIN wh_tables
            /\ Range(calls[k].columns) \subseteq Range(wh_tables["EXTRACTED_METRICS"])

\* C12: in a process batch with an empty metric set deployment is skipped:
\* no DDL and no INSERT goes to the warehouse, whatever the extraction
\* service returns.
C12_EmptyMetricSetSkipsDeployment ==
    (ProcessBatch /\ pc # "idle" /\ input_metrics = <<>>) =>
        /\ \A k \in SchemaCalls : calls[k].ret # "returned"
        /\ InsertsIssued = {}

\* C13: the table the schema builder builds for a metric set M has the
\* columns DOCUMENT_NAME, EXTRACTION_DATE, then upper(m.name) for each m of
\* M in M's order, and no other column.
C13_SchemaColumnsExact ==
    (ProcessBatch /\ Truthy(state.schema) /\ Truthy(state.selected_metrics)) =>
        /\ Len(state.schema[1].tables) = 1
        /\ ColumnNames(state.schema[1].tables[1].columns) =
              <<"DOCUMENT_NAME", "EXTRACTION_DATE">>
              \o [j \in 1..Len(state.selected_metrics) |->
                     Upper(state.selected_metrics[j].name)]

\* C14: the INSERT insert_metrics_row builds names exactly the
\* document-identifier column followed by upper(name) of each metric in list
\* order, binds exactly one value per column, and the call returns 0 or 1.
C14_InsertStatementShape ==
    \A k \in InsertCalls :
        /\ calls[k].ret = "returned"
        /\ calls[k].rows \in {0, 1}
        /\ k \in InsertsIssued =>
              /\ calls[k].columns = ExpectedInsertColumns(calls[k].metrics)
              /\ Len(calls[k].values) = Len(calls[k].columns)

C14_Witness ==
    /\ pc = "END"
    /\ \E k \in InsertsDone : calls[k].columns = <<"DOCUMENT_NAME", "REV", "EPS">>
    /\ InsertsFailed # {}

\* C15: insert_metrics_row looks each metric up without regard to letter
\* case: when the extracted values hold a key equal to the metric name up to
\* case, that key's value, not NULL, is bound for the metric's column.
C15_LookupIgnoresCase ==
    InsertJustIssued =>
        LET extraction == extraction_data[1].extraction
        IN  \A j \in 1..Len(LastCall.metrics) :
                \A key \in DOMAIN extraction :
                    Lower(key) = Lower(LastCall.metrics[j].name)
                    => LastCall.values[j + 1] = extraction[key]

C17_SuggestLeavesWarehouseAlone ==
    (~ProcessBatch /\ pc # "idle") =>
        /\ SchemaCalls \cup InsertCalls \cup CallsOf("design_schema") = {}
        /\ state.schema = None
        /\ state.deployment_result = None

C17_Witness ==
    /\ pc = "END"
    /\ ~ProcessBatch
    /\ Len(state.markdown_paths) = 2
    /\ Truthy(state.suggested_metrics)
    /\ wh_rows # EmptyBag

\* C18: the two paths are disjoint and chosen by current_step alone: a run
\* with current_step "process" executes, after the router, only nodes of the
\* process path, any other run only nodes of the suggest path; no run
\* executes a node of both.
C18_PathsDisjoint ==
    LET nodes == Range(visited) \ {"router"}
    IN  /\ ProcessBatch => nodes \subseteq ProcessNodes
        /\ ~ProcessBatch => nodes \subseteq SuggestNodes
        /\ nodes \cap SuggestNodes = {} \/ nodes \cap ProcessNodes = {}

C18_Witness ==
    /\ pc = "END"
    /\ visited = <<"router", "extract_metrics", "design_metrics_schema", "deploy_metrics">>
    /\ batch = 2
    /\ InsertsDone # {}

\* C19: no node is revisited: in every run each node executes at most once
\* (so a run makes at most four node transitions), and every run terminates:
\* once the graph is entered it reaches the terminal state or halts.
C19_NoRevisitAndTerminates ==
    /\ [](NoDuplicates(visited) /\ Len(visited) <= 4)
    /\ (pc = "router") ~> Terminated

C19_Witness ==
    /\ pc = "END"
    /\ Len(visited) = 4
    /\ Cardinality(InsertCalls) = 2

\* C20: when a node raises in a run over at least one document, the machine
\* halts and the state the caller gets back has its error field set to that
\* error.
C20_ErrorSurfacedInState ==
    (pc = "halted" /\ (Truthy(state.file_paths) \/ Truthy(state.markdown_paths)))
    => state.error # ""

\* the order of the nodes of the process path
ProcessOrder == <<"router", "extract_metrics", "design_metrics_schema", "deploy_metrics">>

\* the columns of the table design_schema builds from the selected metrics
DesignedColumns(metrics) ==
    ColumnNames(DesignSchema(EmptyDict, metrics).tables[1].columns)

\* C21: in every process run the steps come in the order ExtractMetrics,
\* BuildSchema, DeploySchemaOnce, InsertEachDocumentRow, terminal: the nodes
\* run in that order, the run starts with an extraction, every schema
\* deployment follows a design_schema call over the selected metric set and
\* deploys the table built from that set alone, every insert follows a
\* completed schema deployment, and no schema is built or deployed after
\* the first insert.
C21_ProcessStepsInOrder ==
    ProcessBatch =>
        /\ Len(visited) <= Len(ProcessOrder)
        /\ visited = SubSeq(ProcessOrder, 1, Len(visited))
        /\ calls # <<>> => calls[1].op = "extract_metrics_from_markdown"
        /\ \A k \in SchemaCalls :
              /\ calls[k].columns = DesignedColumns(input_metrics)
              /\ \E j \in 1..(k - 1) :
                    /\ calls[j].op = "design_schema"
                    /\ calls[j].metrics = input_metrics
                    /\ \E e \in 1..(j - 1) : calls[e].op = "extract_metrics_from_markdown"
        /\ \A k \in InsertCalls :
              /\ \E j \in 1..(k - 1) :
                    calls[j].op = "create_schema_if_not_exists" /\ calls[j].ret = "returned"
              /\ \A j \in (k + 1)..Len(calls) :
                    calls[j].op \notin {"design_schema", "create_schema_if_not_exists"}

C21_Witness ==
    /\ pc = "END"
    /\ ProcessBatch
    /\ NumDocs = 2
    /\ Len(input_metrics) = 2
    /\ Cardinality(InsertsDone) = 2
    /\ Cardinality(CallsOf("design_schema")) = 2

\* the calls of the history that handle one document of the list
DocumentCalls ==
    {k \in 1..Len(calls) :
        calls[k].op \in {"extract_markdown_from_document",
                         "extract_metrics_from_markdown", "insert_metrics_row"}}

\* C30: within one batch the documents are handled one at a time in list
\* order: every call that handles document i (its extraction, its insert)
\* comes before every call that handles a document j > i, an insert comes
\* right after the extraction of its own document, and the inserts come in
\* the order of the document list.
C30_DocumentsInListOrder ==
    /\ \A j, k \in DocumentCalls : j < k => calls[j].doc <= calls[k].doc
    /\ \A j, k \in InsertCalls : j < k => calls[j].doc < calls[k].doc
    /\ \A k \in InsertCalls :
          /\ calls[k - 1].op = "extract_metrics_from_markdown"
          /\ calls[k - 1].doc = calls[k].doc

C30_Witness ==
    /\ pc = "END"
    /\ ProcessBatch
    /\ NumDocs = 2
    /\ \E j, k \in InsertsDone : calls[j].doc = 1 /\ calls[k].doc = 2
    /\ state.markdown_paths[1] # state.markdown_paths[2]

-----------------------------------------------------------------------------
(* Properties of the analysis agent *)

\* the generate_content calls of the history that belong to one logical
\* call: a request's query call, or its insights call
AttemptsOf(r, call) ==
    {k \in 1..Len(infer_log) : infer_log[k].request = r /\ infer_log[k].call = call}

LogicalCalls == {"query", "insights"}

\* every attempt of the logical call was refused
Exhausted(r, call) ==
    \E k \in AttemptsOf(r, call) :
        /\ infer_log[k].attempt = max_retries - 1
        /\ infer_log[k].outcome = "ResourceExhausted"

\* the sleeps the retry loop of a logical call made
SleepsOf(r, call) ==
    {k \in 1..Len(sleep_log) : sleep_log[k].request = r /\ sleep_log[k].call = call}

\* the dict says that the rate limit was hit
HasRateLimitNote(result) ==
    \/ "error" \in DOMAIN result /\ result.error = "Rate limit exceeded"
    \/ \E k \in 1..Len(result.insights) :
          result.insights[k] = "Rate limit exceeded - please try again in a few seconds"

\* C22: for any two consecutive calls to the inference endpoint through the
\* same agent, the second executes at least min_request_interval (2 s)
\* after the first.
C22_ConsecutiveCallsSpaced ==
    \A k \in 1..(Len(infer_log) - 1) :
        infer_log[k + 1].time - infer_log[k].time >= min_request_interval

\* C23: on rate-limit errors one logical inference call makes at most 3
\* attempts; after refused attempt 0 the loop waits 3 s, after refused
\* attempt 1 it waits 6 s, and the next attempt starts no earlier; no wait
\* follows the last attempt.
C23_RetryBudgetAndBackoff ==
    \A r \in Requests, call \in LogicalCalls :
        /\ Cardinality(AttemptsOf(r, call)) <= 3
        /\ \A k \in AttemptsOf(r, call) : infer_log[k].attempt \in 0..2
        /\ \A k \in SleepsOf(r, call) :
              \/ sleep_log[k].attempt = 0 /\ sleep_log[k].wait_time = 3
              \/ sleep_log[k].attempt = 1 /\ sleep_log[k].wait_time = 6
        /\ \A k \in AttemptsOf(r, call) :
              (infer_log[k].outcome = "ResourceExhausted" /\ infer_log[k].attempt < 2)
              => /\ \E j \in SleepsOf(r, call) : sleep_log[j].attempt = infer_log[k].attempt
                 /\ \A j \in AttemptsOf(r, call) :
                       infer_log[j].attempt = infer_log[k].attempt + 1
                       => infer_log[j].time - infer_log[k].time
                             >= 3 * (2 ^ infer_log[k].attempt)
        /\ Cardinality(SleepsOf(r, call)) <= 2

C23_Witness ==
    \E r \in Requests :
        /\ apc[r] = "done"
        /\ Exhausted(r, "insights")
        /\ Cardinality(SleepsOf(r, "insights")) = 2
        /\ Cardinality(SleepsOf(r, "query")) = 1
        /\ \E j, k \in AttemptsOf(r, "insights") :
              infer_log[j].attempt = 0 /\ infer_log[k].attempt = 2
              /\ infer_log[k].time - infer_log[j].time = 9

\* C24: when every attempt of an inference call of a request was
\* rate-limited, the request returns a result that carries an explicit
\* rate-limit note, for the query call and for the insights call.
C24_RateLimitNoteReturned ==
    \A r \in Requests, call \in LogicalCalls :
        (apc[r] = "done" /\ Exhausted(r, call))
        => /\ Truthy(response[r])
           /\ HasRateLimitNote(response[r][1])

-----------------------------------------------------------------------------
(* Properties of the reading of replies *)

Marker(token) == token \in {Fence, FenceJson}

HasMarker(text) == \E k \in 1..Len(text) : Marker(text[k])

\* o is the first fence-open of the text: the first marker of either kind
FirstFenceOpen(text, o) ==
    /\ o \in 1..Len(text)
    /\ Marker(text[o])
    /\ \A j \in 1..(o - 1) : ~Marker(text[j])

\* o is the first marker of the json kind when the text holds one, the
\* first marker otherwise
FirstJsonFenceOpen(text, o) ==
    /\ o \in 1..Len(text)
    /\ IF \E j \in 1..Len(text) : text[j] = FenceJson
       THEN text[o] = FenceJson /\ \A j \in 1..(o - 1) : text[j] # FenceJson
       ELSE text[o] = Fence /\ \A j \in 1..(o - 1) : text[j] # Fence

\* c is the next marker after o
NextFenceClose(text, o, c) ==
    /\ c \in (o + 1)..Len(text)
    /\ Marker(text[c])
    /\ \A j \in (o + 1)..(c - 1) : ~Marker(text[j])

\* the value json.loads gives for an object
Parsed(object) == [raises |-> FALSE, value |-> Compact(object)]

\* the operation applied to the reply parsed the text between o and c: an
\* object that stands there alone is the value it got; a text that is no
\* object did not parse (FinancialAnalyzer, which cuts after the brace that
\* closes a leading one, aside)
ParsedBetween(applied, text, o, c) ==
    LET between == SubSeq(text, o + 1, c - 1)
    IN  /\ IsJsonObject(between) => applied.json = Parsed(between)
        /\ (~IsJsonObject(between) /\ applied.operation # "analyze") => applied.json.raises

MatchingBrace(text, o, c) ==
    /\ o \in 1..Len(text)
    /\ text[o] = "{"
    /\ \A j \in 1..(o - 1) : text[j] # "{"
    /\ c \in (o + 1)..Len(text)
    /\ text[c] = "}"
    /\ BraceCount(text, c) = 0
    /\ \A j \in o..(c - 1) : BraceCount(text, j) > 0

\* C27: when the reply holds no fence, the first '{' is looked for and the
\* substring up to its balanced matching '}' is what is parsed: prose
\* before and after the object does not matter.
C27_BareObjectFound ==
    (Truthy(parse_result) /\ ~HasMarker(response_text)) =>
        \A o, c \in 1..Len(response_text) :
            MatchingBrace(response_text, o, c)
            => parse_result[1].json = JsonLoads(SubSeq(response_text, o, c))

\* the values an operation returns when the reply is read: the one of its
\* try block, the one of its except block
NormalResult(operation) ==
    CASE operation = "analyze" -> AiAnalysis
      [] operation = "extract_from_document" -> ParsedExtraction
      [] operation = "suggest_metrics_from_markdown" -> ParsedSuggestions
      [] operation = "analyze_query: query" -> FollowupResponse
      [] OTHER -> AiInsights

FallbackResult(operation) ==
    CASE operation = "analyze" -> BasicAnalysis
      [] operation = "extract_from_document" -> MockExtraction
      [] operation = "suggest_metrics_from_markdown" -> NoSuggestions
      [] operation = "analyze_query: query" -> UnexpectedErrorResponse("JSONDecodeError")
      [] OTHER -> FallbackInsights

\* the fields a caller reads of the operation's result
ShapeOf(operation) ==
    CASE operation \in {"analyze", "extract_from_document"} -> {"type"}
      [] operation = "suggest_metrics_from_markdown" -> {"suggested_metrics"}
      [] OTHER -> {"summary", "insights"}

\* C28: when the reply does not parse as JSON, the operation does not
\* abort: no exception leaves it, and it returns its fallback, which has
\* the shape of a normal result (the basic analysis for analyze, an empty
\* suggestion list for the metric suggestion, a summary and insights for
\* analyze_query).
C28_FallbackOnFormatError ==
    (Truthy(parse_result) /\ parse_result[1].json.raises) =>
        LET applied == parse_result[1]
        IN  /\ ~applied.raised
            /\ applied.result = Some(FallbackResult(applied.operation))
            /\ ShapeOf(applied.operation) \subseteq DOMAIN applied.result[1]
            /\ ShapeOf(applied.operation) \subseteq DOMAIN NormalResult(applied.operation)
            /\ applied.operation = "analyze" => applied.result[1] = BasicAnalysis
            /\ applied.operation = "suggest_metrics_from_markdown"
                  => applied.result[1].suggested_metrics = <<>>
            /\ applied.operation = "analyze_query: insights"
                  => DOMAIN applied.result[1] = DOMAIN AiInsights

C28_Witness ==
    /\ response_text = <<"prose", "{", "}", "prose">>
    /\ Truthy(parse_result)
    /\ parse_result[1].operation = "suggest_metrics_from_markdown"
    /\ parse_result[1].json.raises
    /\ parse_result[1].result = Some(NoSuggestions)

-----------------------------------------------------------------------------
(* Properties of a batch without its warehouse *)

\* the warehouse calls that found no warehouse: create_schema_if_not_exists
\* with no credentials configured, insert_metrics_row that sent no statement
\* (no credentials, or no connection)
WarehouseUnavailableCalls ==
    {k \in SchemaCalls : ~use_snowflake /\ calls[k].ret = "raised"}
    \cup {k \in InsertCalls : calls[k].columns = <<>>}

\* C29: when the warehouse is unreachable or not configured, the current
\* node fails and the batch halts with the state's error set, and the state
\* carries no DeploymentResult reporting created tables, loaded rows or
\* status "success".
C29_UnavailableWarehouseHalts ==
    WarehouseUnavailableCalls # {} =>
        /\ pc = "halted"
        /\ state.error # ""
        /\ ~Truthy(state.deployment_result)

-----------------------------------------------------------------------------
(* Properties of the warehouse connections and of the result's counters *)

\* C31: after any create_schema_if_not_exists or insert_metrics_row call has
\* returned or raised, no connection the call opened remains open, and the
\* row of every insert that returned 1 is committed before the next
\* document is processed.
C31_ConnectionsReleased ==
    /\ open_connections = 0
    /\ \A k \in InsertsDone : CopiesIn(RowOf(k), wh_rows) >= 1

\* the schema has just been created: create_schema_if_not_exists is the last
\* call of the batch and it returned
SchemaJustCreated ==
    /\ pc = "extract_document"
    /\ calls # <<>>
    /\ calls[Len(calls)].op = "create_schema_if_not_exists"
    /\ calls[Len(calls)].ret = "returned"

\* C32: rows_loaded of the DeploymentResult is 0 right after schema
\* creation, and at the end of a process batch it is the number of
\* documents whose insert_metrics_row returned 1, which never exceeds the
\* number of documents.
C32_RowsLoadedAdditive ==
    /\ SchemaJustCreated =>
          /\ Truthy(final_deployment_result)
          /\ final_deployment_result[1].rows_loaded = 0
          /\ total_rows_loaded = 0
    /\ (ProcessBatchEnded /\ Truthy(state.deployment_result)) =>
          /\ state.deployment_result[1].rows_loaded = Cardinality(InsertsDone)
          /\ state.deployment_result[1].rows_loaded <= NumDocs
    /\ pc \in {"extract_document", "insert_metrics_row"} =>
          /\ total_rows_loaded = Cardinality(InsertsDone)
          /\ total_rows_loaded <= NumDocs

C32_Witness ==
    /\ ProcessBatchEnded
    /\ Truthy(state.deployment_result)
    /\ NumDocs = 2
    /\ state.deployment_result[1].rows_loaded = 1
    /\ Cardinality(InsertsFailed) = 1
    /\ Cardinality(InsertsDone) = 1

-----------------------------------------------------------------------------
(* Properties of design_schema *)

\* the columns design_schema made of the metrics, after the three fixed ones
DesignedMetricColumn(k) == design_result[1].tables[1].columns[3 + k]

MetricsDesigned == Truthy(design_result) /\ design_metrics # <<>>

\* the storage types by kind
VariableLengthText == "VARCHAR(500)"

Integer == "NUMBER"

FixedPointDecimal == "NUMBER(18,2)"

Boolean == "BOOLEAN"

\* the mapping with the tags named `first`, "int", "float", "bool"
StorageOf(first, tag) ==
    CASE tag = first -> VariableLengthText
      [] tag = "int" -> Integer
      [] tag = "float" -> FixedPointDecimal
      [] tag = "bool" -> Boolean

\* C33 as stated: a metric column's storage type is given by a closed
\* mapping of the type tag: string to variable-length text, int to integer,
\* float to fixed-point decimal, bool to boolean; each of these tags is a
\* key of the mapping and no tag outside them is accepted.
C33_ClosedTypeMapping ==
    MetricsDesigned =>
        /\ {"string", "int", "float", "bool"} \subseteq TypeMappingKeys
        /\ \A k \in 1..Len(design_metrics) :
              /\ design_metrics[k].type \in {"string", "int", "float", "bool"}
              /\ DesignedMetricColumn(k).type = StorageOf("string", design_metrics[k].type)

\* C33 amended: a metric column's storage type is given by a mapping of the
\* type tag with a default: str to variable-length text, int to integer,
\* float to fixed-point decimal, bool to boolean; each of these tags is a
\* key of the mapping, and every other tag is accepted and stored as
\* variable-length text.
C33_TypeMappingWithDefault ==
    MetricsDesigned =>
        /\ {"str", "int", "float", "bool"} = TypeMappingKeys
        /\ \A k \in 1..Len(design_metrics) :
              DesignedMetricColumn(k).type =
                  IF design_metrics[k].type \in {"str", "int", "float", "bool"}
                  THEN StorageOf("str", design_metrics[k].type)
                  ELSE VariableLengthText

C33_Witness ==
    /\ MetricsDesigned
    /\ design_metrics = << [name |-> "rev", type |-> "float"], [name |-> "eps", type |-> "date"] >>
    /\ DesignedMetricColumn(1).type = FixedPointDecimal
    /\ DesignedMetricColumn(2).type = VariableLengthText

\* design_schema was called with no metric set
StarDesigned == Truthy(design_result) /\ design_metrics = <<>>

TableNames(schema) == [k \in 1..Len(schema.tables) |-> schema.tables[k].table_name]

\* the relationship of a fact column to the key of a dimension
ForeignKey(column, dimension) ==
    [from |-> "FACT_FINANCIAL_DATA." \o column, to |-> dimension \o "." \o column]

\* C34 as stated: with no metric set design_schema returns the star schema
\* of exactly three tables (time dimension, account dimension, fact table);
\* its relationships are the fact table's foreign keys to both dimensions,
\* its clustering hint is on the fact table's dimension keys.
C34_StarSchemaThreeTables ==
    StarDesigned =>
        LET schema == design_result[1]
        IN  /\ Len(schema.tables) = 3
            /\ Range(TableNames(schema)) =
                  {"DIM_TIME_PERIOD", "DIM_ACCOUNT", "FACT_FINANCIAL_DATA"}
            /\ Range(schema.relationships) =
                  {ForeignKey("PERIOD_ID", "DIM_TIME_PERIOD"),
                   ForeignKey("ACCOUNT_ID", "DIM_ACCOUNT")}
            /\ Len(schema.clustering_recommendations) = 1
            /\ schema.clustering_recommendations[1].table = "FACT_FINANCIAL_DATA"
            /\ Range(schema.clustering_recommendations[1].keys) = {"PERIOD_ID", "ACCOUNT_ID"}

\* C34 amended: with no metric set design_schema returns the star schema of
\* exactly four tables (time dimension, account dimension, document
\* dimension, fact table); its relationships are the fact table's foreign
\* keys to the three dimensions, its clustering hint is on the fact table's
\* time and account keys.
C34_StarSchemaFourTables ==
    StarDesigned =>
        LET schema == design_result[1]
        IN  /\ Len(schema.tables) = 4
            /\ Range(TableNames(schema)) =
                  {"DIM_TIME_PERIOD", "DIM_ACCOUNT", "DIM_DOCUMENT", "FACT_FINANCIAL_DATA"}
            /\ Range(schema.relationships) =
                  {ForeignKey("PERIOD_ID", "DIM_TIME_PERIOD"),
                   ForeignKey("ACCOUNT_ID", "DIM_ACCOUNT"),
                   ForeignKey("DOCUMENT_ID", "DIM_DOCUMENT")}
            /\ Len(schema.relationships) = 3
            /\ \A r \in Range(schema.relationships) :
                  \E c \in Range(schema.tables[4].columns) :
                      r.from = "FACT_FINANCIAL_DATA." \o c.name
            /\ Len(schema.clustering_recommendations) = 1
            /\ schema.clustering_recommendations[1].table = "FACT_FINANCIAL_DATA"
            /\ Range(schema.clustering_recommendations[1].keys) = {"PERIOD_ID", "ACCOUNT_ID"}

C34_Witness ==
    /\ StarDesigned
    /\ Len(design_result[1].tables) = 4
    /\ design_result[1].tables[3].table_name = "DIM_DOCUMENT"
    /\ design_result[1].tables[4].table_name = "FACT_FINANCIAL_DATA"

-----------------------------------------------------------------------------
(* Properties of the suggest path *)

\* a suggest batch over at least one file
SuggestBatch == ~ProcessBatch /\ pc # "idle" /\ state.file_paths # <<>>

ParseCalls == CallsOf("extract_markdown_from_document")

InferenceCalls == CallsOf("generate_content")

\* every file parsed once, in list order, before any call of the language
\* model; the language model called for the first document only
ParsedInOrderBeforeInference ==
    /\ \A k \in ParseCalls : calls[k].doc = Cardinality({j \in ParseCalls : j <= k})
    /\ \A k \in ParseCalls, g \in InferenceCalls : k < g
    /\ pc \in {"suggest_metrics", "END"} =>
          Cardinality(ParseCalls) = Len(state.file_paths)
    /\ \A g \in InferenceCalls :
          /\ calls[g].doc = 1
          /\ Cardinality(ParseCalls) = Len(state.file_paths)

\* C35 as stated: in a suggest run every file is parsed once, in list
\* order, before any inference call, and SuggestMetrics then makes exactly
\* one inference call for the batch, built from the first document's
\* markdown only, whatever the number of documents.
C35_ExactlyOneInference ==
    SuggestBatch =>
        /\ ParsedInOrderBeforeInference
        /\ pc = "END" => Cardinality(InferenceCalls) = 1

\* C35 amended: in a suggest run every file is parsed once, in list order,
\* before any inference call, and SuggestMetrics then makes at most one
\* inference call for the batch, built from the first document's markdown
\* only, whatever the number of documents: exactly one when the language
\* model is configured and the first document's markdown is read, none
\* otherwise.
C35_AtMostOneInference ==
    SuggestBatch =>
        /\ ParsedInOrderBeforeInference
        /\ Cardinality(InferenceCalls) <= 1
        /\ pc = "END" =>
              /\ Cardinality(CallsOf("suggest_metrics_from_markdown")) = 1
              /\ calls[Len(calls)].op = "suggest_metrics_from_markdown"
              /\ calls[Len(calls)].doc = 1
              /\ Cardinality(InferenceCalls) =
                    IF calls[Len(calls)].ret \in {"unavailable", "unreadable"} THEN 0 ELSE 1

C35_Witness ==
    /\ SuggestBatch
    /\ pc = "END"
    /\ Len(state.file_paths) = 2
    /\ Cardinality(ParseCalls) = 2
    /\ Cardinality(InferenceCalls) = 1
    /\ Truthy(state.suggested_metrics)

-----------------------------------------------------------------------------
(* Properties of the per-document map *)

\* C36: at the end of a process batch the map of extracted values has
\* exactly one entry for every document whose extraction succeeded, keyed by
\* the document's name: as many entries as documents for which a row insert
\* was attempted, also when two paths share a base name.
C36_OneEntryPerExtractedDocument ==
    ProcessBatchEnded =>
        /\ \A k \in InsertCalls :
              DocName(state.markdown_paths[calls[k].doc]) \in DOMAIN state.extracted_metrics
        /\ Cardinality(DOMAIN state.extracted_metrics) = Cardinality(InsertCalls)

-----------------------------------------------------------------------------
(* Properties of FinancePipeline *)

FinanceOrder == <<"extract_documents", "analyze_data", "design_schema", "deploy_to_snowflake">>

\* the number of nodes a run with this stop_after is to execute
NodesToRun(stop_after) ==
    CASE stop_after = "extract" -> 1
      [] stop_after = "analyze" -> 2
      [] stop_after = "schema" -> 3
      [] OTHER -> 4

\* C37: FinancePipeline runs its nodes in the order extract_documents,
\* analyze_data, design_schema, deploy_to_snowflake and stops right after the
\* step stop_after names: for extract, analyze and schema exactly the nodes
\* up to that step run and the deployer is never invoked; for every other
\* value, and for none, all four run.
C37_StopsAfterNamedStep ==
    LET stop_after == StopAfter(f_state)
    IN  /\ Len(f_visited) <= NodesToRun(stop_after)
        /\ f_visited = SubSeq(FinanceOrder, 1, Len(f_visited))
        /\ f_pc \in {"END", "halted"} => Len(f_visited) = NodesToRun(stop_after)
        /\ f_pc = "halted" => f_visited = FinanceOrder
        /\ stop_after \in {"extract", "analyze", "schema"} => f_deploy_calls = 0
        /\ f_deploy_calls = Cardinality({k \in 1..Len(f_visited) :
                                            f_visited[k] = "deploy_to_snowflake"})

C37_Witness ==
    /\ f_pc = "END"
    /\ StopAfter(f_state) = "schema"
    /\ f_visited = <<"extract_documents", "analyze_data", "design_schema">>
    /\ Truthy(f_state.schema)
    /\ f_deploy_calls = 0

-----------------------------------------------------------------------------
(* Properties of analyze_query under errors *)

\* C38: only rate-limit errors are retried: an attempt that fails with any
\* other error is followed by no sleep and no further attempt, the request
\* returns an error response at once; when it is the first attempt of its
\* call, the call has made exactly one attempt and has not slept.
C38_OtherErrorsNotRetried ==
    \A k \in 1..Len(infer_log) :
        infer_log[k].outcome = "Exception" =>
            LET r == infer_log[k].request
                call == infer_log[k].call
            IN  /\ \A j \in 1..Len(infer_log) : j > k => infer_log[j].request # r
                /\ \A j \in SleepsOf(r, call) : sleep_log[j].attempt < infer_log[k].attempt
                /\ infer_log[k].attempt = 0 =>
                      /\ Cardinality(AttemptsOf(r, call)) = 1
                      /\ SleepsOf(r, call) = {}
                /\ apc[r] = "done"
                /\ response[r] = <<UnexpectedErrorResponse("Exception")>>
                /\ "error" \in DOMAIN response[r][1]

C38_Witness ==
    \E r \in Requests :
        /\ apc[r] = "done"
        /\ Cardinality(AttemptsOf(r, "query")) = 1
        /\ Cardinality(AttemptsOf(r, "insights")) = 1
        /\ \E k \in AttemptsOf(r, "insights") : infer_log[k].outcome = "Exception"
        /\ SleepsOf(r, "insights") = {}
        /\ "error" \in DOMAIN response[r][1]

\* the request has entered analyze_query and has not returned
Started(r) == apc[r] \notin {"new", "done"}

\* the request has its answer: a dict with a summary and insights
Answered(r) ==
    /\ apc[r] = "done"
    /\ Truthy(response[r])
    /\ {"summary", "insights"} \subseteq DOMAIN response[r][1]

\* C39: analyze_query is total: whatever the inference endpoint and the
\* warehouse answer (rate limits, other errors, text that is no JSON,
\* failing or empty queries), a request that has started returns, and what
\* it returns is a response with a summary and insights; nothing is raised
\* to the caller.
C39_AnalyzeQueryTotal ==
    /\ [](\A r \in Requests : apc[r] = "done" => Answered(r))
    /\ \A r \in Requests : Started(r) ~> Answered(r)

C39_Witness ==
    /\ \A r \in Requests : Answered(r)
    /\ response[1] = <<SqlErrorResponse>>
    /\ response[2] = <<UnexpectedErrorResponse("JSONDecodeError")>>
    /\ \E k \in AttemptsOf(1, "query") : infer_log[k].outcome = "ResourceExhausted"

=============================================================================
